---------------------------- MODULE Spec2Model ----------------------------
(***************************************************************************)
(* A model of the repository scanner and the grouping tree of the          *)
(* git-repositories extension.                                             *)
(*                                                                         *)
(* Strings are sequences of one-character strings, so that startsWith,     *)
(* substring, split and the regular expressions of the source can be       *)
(* computed the way the source computes them.                              *)
(***************************************************************************)
EXTENDS Integers, Sequences, FiniteSets, TLC

VARIABLES
    urlPc,      \* classifier harness: "off" | "input" | "domain" | "classified"
    urlIn,      \* the remote URL under classification and the parts it was built from
    urlOut,     \* [domain, owner] returned by extractDomain / extractOwner
    wtPc,       \* extractRepositoryInfo: "off" | "status" | "remotes" | "list" |
                \* "parsing" | "postpass" | "build" | "done"
    wtIn,       \* [repoPath, isGitFile, text]: the arguments and the porcelain output
    wtGit,      \* [currentBranch, remotes]: what status and getRemotes gave
    wtLines,    \* worktreeList.split("\n")
    wtPos,      \* index of the next line of the for loop
    currentWorktree, \* the Partial<WorktreeInfo> under construction
    worktrees,  \* the WorktreeInfo[] collected so far
    wtIdx,      \* index of the next worktree of the post-pass
    wtLog,      \* per worktree, how its commit log lookup ended
    repoInfo,   \* the RepositoryInfo returned, Unset before
    scPc,       \* scanAndStore: "off" | "idle" | "root" | "walk" | "save" | "done"
    fsTree,     \* the directory tree on disk (it does not change during a scan)
    configuredPaths, \* getRepositoryPaths(): the configured roots, in order
    rootIdx,    \* index of the configured root under scan
    stack,      \* the pending calls scan(dirPath, depth), next call first
    repositories, \* scanPath: the records found under the current root
    seenPaths,  \* scanPath: normalized paths already extracted
    allRepositories, \* scanAllConfiguredPaths: the merged records
    allSeenPaths, \* scanAllConfiguredPaths: its seenPaths
    readLog,    \* history: the directories readdir was called on
    warned,     \* history: the directories console.warn reported
    notifications, \* number of showErrorMessage calls
    stored,     \* what storage.saveRepositories received last, Unset before
    tvPc,       \* tree view: "off" | "view"
    tvRepositories, \* RepositoryTreeDataProvider.repositories
    currentWorkspacePath, \* RepositoryTreeDataProvider.currentWorkspacePath
    showRepositoryCount, \* getShowRepositoryCount()
    decorations, \* RepositoryDecorationProvider.decorations: id -> count
    ownerTrees, \* per domain, the owner nodes getOwnerNodes built last
    tvQueue,    \* the nodes handed to the view whose children it has not asked for
    tvLog,      \* history: the getChildren calls, [element, children]
    tvPrev,     \* history: <<[log, decorations]>> of the walk before refresh(), <<>> before
    lvPc,       \* the activated extension: "off" | "live"
    globalState, \* the storage: <<>> while nothing was saved, <<records>> after
    lvConfig,   \* the configuration scanAllConfiguredPaths reads when a run starts
    runs,       \* the scanAndStore calls in the order they started:
                \* [trigger, pc, config, repos], pc "scan" | "save" | "done" | "failed"
    reloads,    \* loadRepositories calls awaiting storage.getRepositories(), oldest first
    received,   \* history: per subscriber of onDidChangeRepositories, what it was given
    saves,      \* history: the arguments of the saveRepositories calls that resolved
    lastGet,    \* history: <<[value, saves]>> of the last getRepositories() probe, <<>> before
    treeDataFires \* history: number of _onDidChangeTreeData.fire() calls

urlVars == <<urlPc, urlIn, urlOut>>
wtVars == <<wtPc, wtIn, wtGit, wtLines, wtPos, currentWorktree, worktrees, wtIdx, wtLog, repoInfo>>

scanVars == <<scPc, fsTree, configuredPaths, rootIdx, stack, repositories, seenPaths,
              allRepositories, allSeenPaths, readLog, warned, notifications, stored>>

treeVars == <<tvPc, tvRepositories, currentWorkspacePath, showRepositoryCount,
              decorations, ownerTrees, tvQueue, tvLog, tvPrev>>

liveVars == <<lvPc, globalState, lvConfig, runs, reloads, received, saves, lastGet, treeDataFires>>

vars == <<urlVars, wtVars, scanVars, treeVars, liveVars>>

\* undefined: no string of the program is this one-element sequence
Unset == <<"undefined">>

UrlOff == urlPc = "off" /\ urlIn = Unset /\ urlOut = Unset

WtOff ==
    /\ wtPc = "off" /\ wtIn = Unset /\ wtGit = Unset /\ wtLines = <<>> /\ wtPos = 0
    /\ currentWorktree = Unset /\ worktrees = <<>> /\ wtIdx = 0 /\ wtLog = <<>>
    /\ repoInfo = Unset

ScanOff ==
    /\ scPc = "off" /\ fsTree = Unset /\ configuredPaths = <<>> /\ rootIdx = 0
    /\ stack = <<>> /\ repositories = <<>> /\ seenPaths = {}
    /\ allRepositories = <<>> /\ allSeenPaths = {} /\ readLog = {} /\ warned = {}
    /\ notifications = 0 /\ stored = Unset

TreeOff ==
    /\ tvPc = "off" /\ tvRepositories = <<>> /\ currentWorkspacePath = Unset
    /\ showRepositoryCount = FALSE /\ decorations = <<>> /\ ownerTrees = <<>>
    /\ tvQueue = <<>> /\ tvLog = <<>> /\ tvPrev = <<>>

LiveOff ==
    /\ lvPc = "off" /\ globalState = <<>> /\ lvConfig = Unset /\ runs = <<>> /\ reloads = <<>>
    /\ received = <<>> /\ saves = <<>> /\ lastGet = <<>> /\ treeDataFires = 0

(***************************************************************************)
(* Strings                                                                 *)
(***************************************************************************)
SetMin(S) == CHOOSE x \in S : \A y \in S : x <= y
SetMax(S) == CHOOSE x \in S : \A y \in S : x >= y

\* String.prototype.startsWith
StartsWith(s, p) == Len(s) >= Len(p) /\ SubSeq(s, 1, Len(p)) = p

EndsWith(s, p) == Len(s) >= Len(p) /\ SubSeq(s, Len(s) - Len(p) + 1, Len(s)) = p

\* String.prototype.substring(from), 0-based
SubstringFrom(s, from) == SubSeq(s, from + 1, Len(s))

\* String.prototype.substring(0, to)
SubstringTo(s, to) == SubSeq(s, 1, IF to < Len(s) THEN to ELSE Len(s))

\* String.prototype.split(ch): "" splits to [""]
RECURSIVE Split(_, _)
Split(s, ch) ==
    LET idx == {i \in 1..Len(s) : s[i] = ch} IN
    IF idx = {} THEN <<s>>
    ELSE LET i == SetMin(idx) IN
         <<SubSeq(s, 1, i - 1)>> \o Split(SubSeq(s, i + 1, Len(s)), ch)

\* Array.prototype.join(ch)
RECURSIVE Join(_, _)
Join(parts, ch) ==
    IF parts = <<>> THEN <<>>
    ELSE IF Len(parts) = 1 THEN parts[1]
    ELSE parts[1] \o <<ch>> \o Join(Tail(parts), ch)

\* Array.prototype.filter((s) => s.length > 0)
RECURSIVE NonEmptyParts(_)
NonEmptyParts(parts) ==
    IF parts = <<>> THEN <<>>
    ELSE (IF Len(parts[1]) > 0 THEN <<parts[1]>> ELSE <<>>) \o NonEmptyParts(Tail(parts))

RECURSIVE Concat(_)
Concat(parts) == IF parts = <<>> THEN <<>> ELSE parts[1] \o Concat(Tail(parts))

\* The number of characters of s after position k up to the first one in stop
RunLen(s, k, stop) ==
    LET idx == {i \in (k + 1)..Len(s) : s[i] \in stop} IN
    IF idx = {} THEN Len(s) - k ELSE SetMin(idx) - k - 1

\* The characters the regular-expression dot does not match
LineTerminators == {"\n", "\r"}

sGitAt == <<"g", "i", "t", "@">>
sSshScheme == <<"s", "s", "h", ":", "/", "/">>
sHttpScheme == <<"h", "t", "t", "p", ":", "/", "/">>
sHttpsScheme == <<"h", "t", "t", "p", "s", ":", "/", "/">>
sDotGit == <<".", "g", "i", "t">>
sUnknown == <<"u", "n", "k", "n", "o", "w", "n">>

(***************************************************************************)
(* RemoteUrlClassifier: extractDomain / extractOwner                       *)
(***************************************************************************)
\* ^(?:git@|ssh:\/\/(?:git@)?) : the lengths of the prefixes the expression can
\* consume, in the order the matcher tries them (the optional git@ first).
SshPrefixLens(remoteUrl) ==
    IF StartsWith(remoteUrl, sGitAt) THEN <<Len(sGitAt)>>
    ELSE IF StartsWith(remoteUrl, sSshScheme \o sGitAt)
         THEN <<Len(sSshScheme) + Len(sGitAt), Len(sSshScheme)>>
    ELSE IF StartsWith(remoteUrl, sSshScheme) THEN <<Len(sSshScheme)>>
    ELSE <<>>

\* ^https?:\/\/
HttpPrefixLens(remoteUrl) ==
    IF StartsWith(remoteUrl, sHttpScheme) THEN <<Len(sHttpScheme)>>
    ELSE IF StartsWith(remoteUrl, sHttpsScheme) THEN <<Len(sHttpsScheme)>>
    ELSE <<>>

\* ([^:\/]+) or ([^\/]+) after a prefix of length k: the greedy run, or <<>>
\* when the run is empty (no match at this prefix).
HostRun(remoteUrl, k, stop) ==
    SubSeq(remoteUrl, k + 1, k + RunLen(remoteUrl, k, stop))

\* The first prefix, in matcher order, after which the host run is not
\* empty; 0 when none is.
FirstHostPrefix(remoteUrl, lens, stop) ==
    LET ok == {i \in 1..Len(lens) : RunLen(remoteUrl, lens[i], stop) >= 1} IN
    IF ok = {} THEN 0 ELSE SetMin(ok)

extractDomain(remoteUrl) ==
    LET sshLens == SshPrefixLens(remoteUrl)
        ssh == FirstHostPrefix(remoteUrl, sshLens, {":", "/"})
        httpLens == HttpPrefixLens(remoteUrl)
        http == FirstHostPrefix(remoteUrl, httpLens, {"/"})
    IN  IF ssh # 0 THEN HostRun(remoteUrl, sshLens[ssh], {":", "/"})
        ELSE IF http # 0 THEN HostRun(remoteUrl, httpLens[http], {"/"})
        ELSE sUnknown

\* (.+?)(?:\.git)?$ on the rest of the string: the lazy group takes the
\* shortest non-empty prefix after which only an optional ".git" remains.
LazyPathCapture(rest) ==
    IF EndsWith(rest, sDotGit) /\ Len(rest) > Len(sDotGit)
    THEN SubSeq(rest, 1, Len(rest) - Len(sDotGit))
    ELSE rest

\* The positions p at which [hostStop-free run]+ [sep] (.+?)(?:\.git)?$ can
\* match after a prefix of length k: a non-empty run before p, a separator
\* at p, and a non-empty rest without line terminators after p.
SeparatorPositions(remoteUrl, k, hostStop, seps) ==
    {p \in (k + 2)..(Len(remoteUrl) - 1) :
        /\ remoteUrl[p] \in seps
        /\ \A i \in (k + 1)..(p - 1) : remoteUrl[i] \notin hostStop
        /\ \A i \in (p + 1)..Len(remoteUrl) : remoteUrl[i] \notin LineTerminators}

\* The path part captured after the first prefix (in matcher order) that
\* matches; the greedy host run makes the separator the last position the
\* expression allows. <<>> when nothing matches.
RECURSIVE CapturedPath(_, _, _, _)
CapturedPath(remoteUrl, lens, hostStop, seps) ==
    IF lens = <<>> THEN <<>>
    ELSE LET ps == SeparatorPositions(remoteUrl, lens[1], hostStop, seps) IN
         IF ps # {}
         THEN LazyPathCapture(SubstringFrom(remoteUrl, SetMax(ps)))
         ELSE CapturedPath(remoteUrl, Tail(lens), hostStop, seps)

\* lines 577-593: pathPart
OwnerPathPart(remoteUrl) ==
    LET ssh == CapturedPath(remoteUrl, SshPrefixLens(remoteUrl), {":", "/"}, {":", "/", " "}) IN
    IF ssh # <<>> THEN ssh
    ELSE CapturedPath(remoteUrl, HttpPrefixLens(remoteUrl), {"/"}, {"/"})

DropLast(seq) == SubSeq(seq, 1, Len(seq) - 1)

extractOwner(remoteUrl) ==
    LET pathPart == OwnerPathPart(remoteUrl)
        segments == NonEmptyParts(Split(pathPart, "/"))
    IN  IF pathPart = <<>> THEN sUnknown
        ELSE IF Len(segments) = 0 THEN sUnknown
        ELSE IF Len(segments) = 1 THEN segments[1]
        ELSE Join(DropLast(segments), "/")

(***************************************************************************)
(* Classifier harness: a remote URL is assembled from a scheme/user        *)
(* prefix, a host, a host separator, owner-path segments and a suffix,     *)
(* then classified by extractDomain (root nodes) and extractOwner (owner   *)
(* nodes).                                                                 *)
(***************************************************************************)
MaxSegs == 3

sGithub == <<"g", "i", "t", "h", "u", "b", ".", "c", "o", "m">>
sAcme == <<"a", "c", "m", "e">>
sWidgets == <<"w", "i", "d", "g", "e", "t", "s">>
sBobAt == <<"b", "o", "b", "@">>
sFtpScheme == <<"f", "t", "p", ":", "/", "/">>
sPort == <<"2", "2">>

SshFormPrefixes == {sGitAt, sSshScheme, sSshScheme \o sGitAt, sSshScheme \o sBobAt}
HttpFormPrefixes == {sHttpScheme, sHttpsScheme}
UrlPrefixes == SshFormPrefixes \cup HttpFormPrefixes \cup {sFtpScheme, <<>>}
UrlHosts == {sGithub, <<>>}
UrlSeps == {<<":">>, <<"/">>, <<":">> \o sPort \o <<"/">>, <<>>}
UrlSegNames == {sAcme, sWidgets}
UrlSuffixes == {<<>>, sDotGit, <<"/">>}

SeqsUpTo(S, n) == UNION {[1..k -> S] : k \in 0..n}

BuildUrl(prefix, host, sep, segs, suffix) ==
    prefix \o host \o sep \o Join(segs, "/") \o suffix

UrlInputs ==
    {[prefix |-> prefix, host |-> host, sep |-> sep, segs |-> segs, suffix |-> suffix,
      url |-> BuildUrl(prefix, host, sep, segs, suffix)] :
        prefix \in UrlPrefixes, host \in UrlHosts, sep \in UrlSeps,
        segs \in SeqsUpTo(UrlSegNames, MaxSegs), suffix \in UrlSuffixes}

NoClassification == [domain |-> <<>>, owner |-> <<>>]

UrlInit ==
    /\ urlPc = "input"
    /\ urlIn \in {u \in UrlInputs :
                    \* nothing follows a host that has no separator after it, and
                    \* a bare ":" is no separator of an http authority
                    /\ u.sep = <<>> => (u.segs = <<>> /\ u.suffix = <<>>)
                    /\ u.prefix \in HttpFormPrefixes => u.sep # <<":">>}
    /\ urlOut = NoClassification
    /\ WtOff
    /\ ScanOff
    /\ TreeOff
    /\ LiveOff

\* getRemoteViewRootNodes: const domain = this.extractDomain(fetchUrl)
ClassifyDomain ==
    /\ urlPc = "input"
    /\ urlOut' = [urlOut EXCEPT !.domain = extractDomain(urlIn.url)]
    /\ urlPc' = "domain"
    /\ UNCHANGED <<urlIn, wtVars, scanVars, treeVars, liveVars>>

\* getOwnerNodes: const ownerPath = this.extractOwner(fetchUrl)
ClassifyOwner ==
    /\ urlPc = "domain"
    /\ urlOut' = [urlOut EXCEPT !.owner = extractOwner(urlIn.url)]
    /\ urlPc' = "classified"
    /\ UNCHANGED <<urlIn, wtVars, scanVars, treeVars, liveVars>>

UrlNext == ClassifyDomain \/ ClassifyOwner

SpecUrl == UrlInit /\ [][UrlNext]_vars

(***************************************************************************)
(* C10                                                                     *)
(***************************************************************************)
\* The owner the specification's rule gives for an owner-path of these
\* segments: all but the last for two or more, the segment itself for one,
\* "unknown" for none.
OwnerOfSegments(segs) ==
    IF Len(segs) = 0 THEN sUnknown
    ELSE IF Len(segs) = 1 THEN segs[1]
    ELSE Join(DropLast(segs), "/")

\* The non-empty segments of the owner-path of a well-formed input, read off
\* the parts the URL was built from: what follows the host separator (for
\* the SSH forms the first ":" or "/" after the host, so a port is part of
\* it; for http(s) the "/" that ends the authority), a trailing ".git" or
\* "/" dropped.
ExpectedOwnerSegments(u) ==
    (IF u.prefix \in SshFormPrefixes /\ u.sep = <<":">> \o sPort \o <<"/">>
     THEN <<sPort>> ELSE <<>>) \o u.segs

WellFormedUrl(u) ==
    /\ u.prefix \in SshFormPrefixes \cup HttpFormPrefixes
    /\ u.host # <<>>

MatchesNoForm(u) ==
    /\ ~StartsWith(u.url, sGitAt)
    /\ ~StartsWith(u.url, sSshScheme)
    /\ ~StartsWith(u.url, sHttpScheme)
    /\ ~StartsWith(u.url, sHttpsScheme)

sScpExample == sGitAt \o sGithub \o <<":">> \o sAcme \o <<"/">> \o sWidgets \o sDotGit

\* C10: the classifier is total (both results are non-empty strings for
\* every input), gives "unknown" for an input of neither the SSH nor the
\* HTTP(S) form, gives github.com / acme for git@github.com:acme/widgets.git,
\* and the owner follows the segment rule (>= 2 segments: all but the last;
\* one: that segment; zero: "unknown") on the owner-path, which is what
\* follows the host separator with a trailing .git stripped.
C10_ClassifierTotalAndSegmentRule ==
    urlPc = "classified" =>
        /\ Len(urlOut.domain) > 0 /\ Len(urlOut.owner) > 0
        /\ MatchesNoForm(urlIn) => (urlOut.domain = sUnknown /\ urlOut.owner = sUnknown)
        /\ urlIn.url = sScpExample => (urlOut.domain = sGithub /\ urlOut.owner = sAcme)
        /\ WellFormedUrl(urlIn) =>
              urlOut.owner = OwnerOfSegments(ExpectedOwnerSegments(urlIn))

\* A path that is exactly ".git": the lazy group of the expression needs one
\* character at least, so the suffix is captured instead of stripped.
DotGitOnlyPath(u) ==
    /\ u.suffix = sDotGit /\ u.sep # <<>>
    /\ ExpectedOwnerSegments(u) = <<>>

\* The same statement with the one input family left out on which the code
\* departs from it.
C10_HoldsButForDotGitOnlyPath ==
    (urlPc = "classified" /\ ~(WellFormedUrl(urlIn) /\ DotGitOnlyPath(urlIn))) =>
        /\ Len(urlOut.domain) > 0 /\ Len(urlOut.owner) > 0
        /\ MatchesNoForm(urlIn) => (urlOut.domain = sUnknown /\ urlOut.owner = sUnknown)
        /\ urlIn.url = sScpExample => (urlOut.domain = sGithub /\ urlOut.owner = sAcme)
        /\ WellFormedUrl(urlIn) =>
              urlOut.owner = OwnerOfSegments(ExpectedOwnerSegments(urlIn))

C10_DotGitOnlyOwner ==
    (urlPc = "classified" /\ WellFormedUrl(urlIn) /\ DotGitOnlyPath(urlIn)) =>
        urlOut.owner = sDotGit

(***************************************************************************)
(* C11                                                                     *)
(***************************************************************************)
sPortSep == <<":">> \o sPort \o <<"/">>

\* ssh://[user@]host[:port]/owner/repo.git and git@host:owner/repo.git
SshRemoteForm(u) ==
    /\ u.host # <<>>
    /\ u.suffix = sDotGit
    /\ Len(u.segs) >= 2
    /\ \/ /\ u.prefix \in {sSshScheme, sSshScheme \o sGitAt, sSshScheme \o sBobAt}
          /\ u.sep \in {<<"/">>, sPortSep}
       \/ /\ u.prefix = sGitAt
          /\ u.sep = <<":">>

\* C11: for every ssh://[user@]host[:port]/owner/repo.git, whatever the
\* user and with or without a port, and every git@host:owner/repo.git, the
\* domain is the host alone (no user, no port) and the owner is taken from
\* the path after the host separator with the trailing .git stripped.
C11_SshDomainIsHostAndOwnerIsPath ==
    (urlPc = "classified" /\ SshRemoteForm(urlIn)) =>
        /\ urlOut.domain = urlIn.host
        /\ urlOut.owner = Join(DropLast(urlIn.segs), "/")

\* The statement holds when the user is git or absent and no port is given
C11_HoldsForGitUserWithoutPort ==
    (urlPc = "classified" /\ SshRemoteForm(urlIn)) =>
        /\ urlIn.prefix # sSshScheme \o sBobAt => urlOut.domain = urlIn.host
        /\ urlIn.sep # sPortSep => urlOut.owner = Join(DropLast(urlIn.segs), "/")

\* What the code gives otherwise: the user stays in the domain, the port
\* becomes the first segment of the owner
C11_UserInDomainAndPortInOwner ==
    (urlPc = "classified" /\ SshRemoteForm(urlIn)) =>
        /\ urlIn.prefix = sSshScheme \o sBobAt => urlOut.domain = sBobAt \o urlIn.host
        /\ urlIn.sep = sPortSep =>
              urlOut.owner = Join(<<sPort>> \o DropLast(urlIn.segs), "/")

(***************************************************************************)
(* path (posix): normalize, basename, join                                 *)
(***************************************************************************)
sDot == <<".">>
sDotDot == <<".", ".">>

\* normalizeString: "" and "." segments are dropped, ".." removes the
\* segment before it (or is kept, above the start of a relative path).
RECURSIVE NormalizeSegments(_, _, _)
NormalizeSegments(segs, acc, allowAboveRoot) ==
    IF segs = <<>> THEN acc
    ELSE LET seg == segs[1] rest == Tail(segs) IN
         IF seg = <<>> \/ seg = sDot THEN NormalizeSegments(rest, acc, allowAboveRoot)
         ELSE IF seg = sDotDot
         THEN IF acc # <<>> /\ acc[Len(acc)] # sDotDot
              THEN NormalizeSegments(rest, DropLast(acc), allowAboveRoot)
              ELSE IF allowAboveRoot
              THEN NormalizeSegments(rest, Append(acc, seg), allowAboveRoot)
              ELSE NormalizeSegments(rest, acc, allowAboveRoot)
         ELSE NormalizeSegments(rest, Append(acc, seg), allowAboveRoot)

\* path.normalize: a trailing separator is preserved
PathNormalize(p) ==
    IF p = <<>> THEN sDot
    ELSE LET isAbsolute == p[1] = "/"
             trailingSeparator == p[Len(p)] = "/"
             body == Join(NormalizeSegments(Split(p, "/"), <<>>, ~isAbsolute), "/")
         IN  IF body = <<>>
             THEN IF isAbsolute THEN <<"/">>
                  ELSE IF trailingSeparator THEN <<".", "/">> ELSE sDot
             ELSE (IF isAbsolute THEN <<"/">> ELSE <<>>) \o body
                  \o (IF trailingSeparator THEN <<"/">> ELSE <<>>)

RECURSIVE StripTrailingSlashes(_)
StripTrailingSlashes(p) ==
    IF p # <<>> /\ p[Len(p)] = "/" THEN StripTrailingSlashes(DropLast(p)) ELSE p

\* path.basename: the last segment, trailing separators ignored
PathBasename(p) ==
    LET parts == Split(StripTrailingSlashes(p), "/") IN parts[Len(parts)]

\* path.join(a, b)
PathJoin(a, b) == PathNormalize(a \o <<"/">> \o b)

(***************************************************************************)
(* extractRepositoryInfo: status, remotes, the worktree block parser and   *)
(* the post-pass                                                           *)
(***************************************************************************)
sWorktreePfx == <<"w", "o", "r", "k", "t", "r", "e", "e", " ">>
sHeadPfx == <<"H", "E", "A", "D", " ">>
sBranchPfx == <<"b", "r", "a", "n", "c", "h", " ">>
sBranchRefsHeadsPfx == <<"b", "r", "a", "n", "c", "h", " ", "r", "e", "f", "s", "/", "h", "e", "a", "d", "s", "/">>
sRefsHeads == <<"r", "e", "f", "s", "/", "h", "e", "a", "d", "s", "/">>
sDetached == <<"d", "e", "t", "a", "c", "h", "e", "d">>

ShortHashLen == 8

\* if (currentWorktree.path): undefined and "" are falsy
Truthy(s) == s # Unset /\ s # <<>>

\* currentWorktree = {}
EmptyWorktree ==
    [path |-> Unset, name |-> Unset, isMain |-> FALSE, isDetached |-> FALSE,
     branch |-> Unset, commitHash |-> Unset, commitMessage |-> Unset]

\* currentWorktree = { path, name: "", isMain: false, isDetached: false }
NewWorktree(path) ==
    [path |-> path, name |-> <<>>, isMain |-> FALSE, isDetached |-> FALSE,
     branch |-> Unset, commitHash |-> Unset, commitMessage |-> Unset]

\* if (currentWorktree.path) worktrees.push(currentWorktree)
PushIfStarted(wts, cur) == IF Truthy(cur.path) THEN Append(wts, cur) ELSE wts

\* One iteration of for (const line of lines): the new [cur, wts]
ParseLine(line, cur, wts) ==
    IF StartsWith(line, sWorktreePfx)
    THEN [cur |-> NewWorktree(SubstringFrom(line, Len(sWorktreePfx))),
          wts |-> PushIfStarted(wts, cur)]
    ELSE IF StartsWith(line, sHeadPfx)
    THEN LET ref == SubstringFrom(line, Len(sHeadPfx)) IN
         [cur |-> IF Truthy(cur.path)
                  THEN [cur EXCEPT
                          !.branch = IF StartsWith(ref, sRefsHeads)
                                     THEN SubstringFrom(ref, Len(sRefsHeads))
                                     ELSE ref,
                          !.commitHash = SubstringTo(ref, ShortHashLen)]
                  ELSE cur,
          wts |-> wts]
    ELSE IF StartsWith(line, sBranchPfx)
    THEN [cur |-> IF Truthy(cur.path)
                  THEN [cur EXCEPT !.branch = SubstringFrom(line, Len(sBranchRefsHeadsPfx))]
                  ELSE cur,
          wts |-> wts]
    ELSE IF line = sDetached
    THEN [cur |-> IF Truthy(cur.path) THEN [cur EXCEPT !.isDetached = TRUE] ELSE cur,
          wts |-> wts]
    ELSE IF line = <<>>
    THEN [cur |-> IF Truthy(cur.path) THEN EmptyWorktree ELSE cur,
          wts |-> PushIfStarted(wts, cur)]
    ELSE [cur |-> cur, wts |-> wts]

\* PostPass with the log lookup moved before the assignments of name and
\* isMain: a lookup that throws then skips them.
PostPassLogFirst(wt, repoPath, outcome, hash, message) ==
    IF outcome = "throws" THEN wt
    ELSE LET named == [wt EXCEPT !.name = PathBasename(wt.path),
                                 !.isMain = (PathNormalize(wt.path) = PathNormalize(repoPath))]
         IN  IF outcome = "latest"
             THEN [named EXCEPT !.commitHash = SubstringTo(hash, ShortHashLen),
                                !.commitMessage = Split(message, "\n")[1]]
             ELSE named

\* The post-pass on one worktree: name, isMain, and the commit of
\* wtGit.log({ maxCount: 1 }), which gives a commit ("latest"), gives none
\* ("empty") or throws ("throws").
PostPass(wt, repoPath, outcome, hash, message) ==
    LET named == [wt EXCEPT !.name = PathBasename(wt.path),
                            !.isMain = (PathNormalize(wt.path) = PathNormalize(repoPath))]
    IN  IF outcome = "latest"
        THEN [named EXCEPT !.commitHash = SubstringTo(hash, ShortHashLen),
                           !.commitMessage = Split(message, "\n")[1]]
        ELSE named

\* const repositoryInfo = { path: repoPath, name: path.basename(repoPath), ... }
\* (lastScanned, the wall-clock time of the scan, is left out)
RepositoryInfo(repoPath, isGitFile, remotes, currentBranch, wts) ==
    [path |-> repoPath, name |-> PathBasename(repoPath), remotes |-> remotes,
     currentBranch |-> currentBranch, isSubmodule |-> isGitFile, worktrees |-> wts]

(***************************************************************************)
(* One call of extractRepositoryInfo(repoPath, isGitFile). What the git    *)
(* commands answer is chosen when each command runs.                       *)
(***************************************************************************)
MaxLines == 3

sMain == <<"m", "a", "i", "n">>
sOrigin == <<"o", "r", "i", "g", "i", "n">>
sRepoR == <<"/", "r">>
sRepoRSlash == <<"/", "r", "/">>
sWtPath == <<"/", "r", "-", "w", "t">>
sSha == <<"a", "b", "c", "1", "2", "3", "d", "e", "f", "4">>
sCommitMessage == <<"f", "i", "x", "\n", "w", "h", "y">>
sCommitSubject == <<"f", "i", "x">>

\* The repository roots the walker hands over: a directory path as
\* path.join builds it, and a configured root written with a trailing "/".
RepoPaths == {sRepoR, sRepoRSlash}

PorcelainLines ==
    {sWorktreePfx \o sRepoR, sWorktreePfx \o sWtPath, sHeadPfx \o sSha,
     sBranchRefsHeadsPfx \o sMain, sDetached, <<>>}

PorcelainTexts == {Join(ls, "\n") : ls \in SeqsUpTo(PorcelainLines, MaxLines)}

OriginRemote == [name |-> sOrigin, fetchUrl |-> sScpExample, pushUrl |-> sScpExample]

LogOutcomes == {"latest", "empty", "throws"}

WtInit ==
    /\ wtPc = "status"
    /\ wtIn \in {[repoPath |-> rp, isGitFile |-> FALSE, text |-> Unset] : rp \in RepoPaths}
    /\ wtGit = [currentBranch |-> Unset, remotes |-> <<>>]
    /\ wtLines = <<>> /\ wtPos = 0
    /\ currentWorktree = EmptyWorktree
    /\ worktrees = <<>> /\ wtIdx = 0 /\ wtLog = <<>>
    /\ repoInfo = Unset
    /\ UrlOff
    /\ ScanOff
    /\ TreeOff
    /\ LiveOff

\* lines 185-193: git.status(); a failure leaves currentBranch undefined
GetStatus ==
    /\ wtPc = "status"
    /\ \E cb \in {sMain, Unset} : wtGit' = [wtGit EXCEPT !.currentBranch = cb]
    /\ wtPc' = "remotes"
    /\ UNCHANGED <<wtIn, wtLines, wtPos, currentWorktree, worktrees, wtIdx, wtLog, repoInfo, urlVars, scanVars, treeVars, liveVars>>

\* lines 196-210: git.getRemotes(true); a failure leaves remotes empty
GetRemotes ==
    /\ wtPc = "remotes"
    /\ \E rs \in {<<>>, <<OriginRemote>>} : wtGit' = [wtGit EXCEPT !.remotes = rs]
    /\ wtPc' = "list"
    /\ UNCHANGED <<wtIn, wtLines, wtPos, currentWorktree, worktrees, wtIdx, wtLog, repoInfo, urlVars, scanVars, treeVars, liveVars>>

\* lines 216-219: git.raw(["worktree", "list", "--porcelain"]) answers
GetWorktreeList ==
    /\ wtPc = "list"
    /\ \E text \in PorcelainTexts :
          /\ wtIn' = [wtIn EXCEPT !.text = text]
          /\ wtLines' = Split(text, "\n")
    /\ wtPos' = 1
    /\ currentWorktree' = EmptyWorktree
    /\ wtPc' = "parsing"
    /\ UNCHANGED <<wtGit, worktrees, wtIdx, wtLog, repoInfo, urlVars, scanVars, treeVars, liveVars>>

\* lines 216, 283-288: git.raw throws; worktrees stays empty
WorktreeListFails ==
    /\ wtPc = "list"
    /\ wtPc' = "build"
    /\ UNCHANGED <<wtIn, wtGit, wtLines, wtPos, currentWorktree, worktrees, wtIdx, wtLog, repoInfo, urlVars, scanVars, treeVars, liveVars>>

\* lines 221-258: one iteration of the loop over the lines
ParseNextLine ==
    /\ wtPc = "parsing"
    /\ wtPos <= Len(wtLines)
    /\ LET r == ParseLine(wtLines[wtPos], currentWorktree, worktrees) IN
          /\ currentWorktree' = r.cur
          /\ worktrees' = r.wts
    /\ wtPos' = wtPos + 1
    /\ UNCHANGED <<wtPc, wtIn, wtGit, wtLines, wtIdx, wtLog, repoInfo, urlVars, scanVars, treeVars, liveVars>>

\* CommitLastBlock without the push after the loop: a block that no blank
\* line ended is lost.
NoCommitLastBlock ==
    /\ wtPc = "parsing"
    /\ wtPos > Len(wtLines)
    /\ wtIdx' = 1
    /\ wtPc' = "postpass"
    /\ UNCHANGED <<wtIn, wtGit, wtLines, wtPos, currentWorktree, worktrees, wtLog, repoInfo, urlVars, scanVars, treeVars, liveVars>>

\* lines 260-262: the block the input ended in
CommitLastBlock ==
    /\ wtPc = "parsing"
    /\ wtPos > Len(wtLines)
    /\ worktrees' = PushIfStarted(worktrees, currentWorktree)
    /\ wtIdx' = 1
    /\ wtPc' = "postpass"
    /\ UNCHANGED <<wtIn, wtGit, wtLines, wtPos, currentWorktree, wtLog, repoInfo, urlVars, scanVars, treeVars, liveVars>>

\* lines 264-282: one iteration of the post-pass
PostPassWorktree ==
    /\ wtPc = "postpass"
    /\ wtIdx <= Len(worktrees)
    /\ \E outcome \in LogOutcomes :
          /\ worktrees' = [worktrees EXCEPT ![wtIdx] =
                              PostPass(@, wtIn.repoPath, outcome, sSha, sCommitMessage)]
          /\ wtLog' = Append(wtLog, outcome)
    /\ wtIdx' = wtIdx + 1
    /\ UNCHANGED <<wtPc, wtIn, wtGit, wtLines, wtPos, currentWorktree, repoInfo, urlVars, scanVars, treeVars, liveVars>>

\* lines 290-300
BuildRepositoryInfo ==
    /\ \/ wtPc = "postpass" /\ wtIdx > Len(worktrees)
       \/ wtPc = "build"
    /\ repoInfo' = RepositoryInfo(wtIn.repoPath, wtIn.isGitFile, wtGit.remotes,
                                  wtGit.currentBranch, worktrees)
    /\ wtPc' = "done"
    /\ UNCHANGED <<wtIn, wtGit, wtLines, wtPos, currentWorktree, worktrees, wtIdx, wtLog, urlVars, scanVars, treeVars, liveVars>>

WtNext ==
    \/ GetStatus
    \/ GetRemotes
    \/ GetWorktreeList
    \/ WorktreeListFails
    \/ ParseNextLine
    \/ CommitLastBlock
    \/ PostPassWorktree
    \/ BuildRepositoryInfo

SpecParse == WtInit /\ [][WtNext]_vars

(***************************************************************************)
(* C6 - C9: the blocks of a porcelain listing, read off the lines          *)
(***************************************************************************)
RECURSIVE SortedSeq(_)
SortedSeq(S) == IF S = {} THEN <<>> ELSE <<SetMin(S)>> \o SortedSeq(S \ {SetMin(S)})

\* The indices of the `worktree <path>` lines, in input order
WorktreeLineIdx(lines) ==
    SortedSeq({i \in 1..Len(lines) : StartsWith(lines[i], sWorktreePfx)})

\* The index of the line that ends the block started at line s: the next
\* blank or `worktree` line, or one past the last line.
BlockEnd(lines, s) ==
    SetMin({j \in (s + 1)..Len(lines) :
                lines[j] = <<>> \/ StartsWith(lines[j], sWorktreePfx)}
           \cup {Len(lines) + 1})

\* The lines of the block started at line s, its `worktree` line left out
BlockLines(lines, s) == SubSeq(lines, s + 1, BlockEnd(lines, s) - 1)

ListingParsed == wtPc \in {"postpass", "done"} /\ wtIn.text # Unset

RecordsMatchWorktreeLines ==
    LET idx == WorktreeLineIdx(wtLines) IN
    /\ Len(worktrees) = Len(idx)
    /\ \A i \in 1..Len(idx) :
          worktrees[i].path = SubstringFrom(wtLines[idx[i]], Len(sWorktreePfx))

AttachedBlock == <<sHeadPfx \o sSha, sBranchRefsHeadsPfx \o sMain>>
DetachedBlock == <<sHeadPfx \o sSha, sDetached>>

\* C6: a record has a branch XOR is detached: the record of a block
\* `HEAD <hash>`, `branch refs/heads/main` has branch = main and
\* isDetached = false; the record of a block `HEAD <hash>`, `detached` has
\* isDetached = true and no branch.
C6_BranchXorDetached ==
    (ListingParsed /\ RecordsMatchWorktreeLines) =>
        \A i \in 1..Len(worktrees) :
            LET block == BlockLines(wtLines, WorktreeLineIdx(wtLines)[i])
                wt == worktrees[i]
            IN  /\ block = AttachedBlock => (wt.branch = sMain /\ ~wt.isDetached)
                /\ block = DetachedBlock => (wt.isDetached /\ wt.branch = Unset)
                /\ block \in {AttachedBlock, DetachedBlock} =>
                      ((wt.branch # Unset) # wt.isDetached)

\* What the code does with the two blocks: the attached one is as claimed,
\* the detached one keeps the HEAD value as its branch.
C6_DetachedKeepsHeadAsBranch ==
    (ListingParsed /\ RecordsMatchWorktreeLines) =>
        \A i \in 1..Len(worktrees) :
            LET block == BlockLines(wtLines, WorktreeLineIdx(wtLines)[i])
                wt == worktrees[i]
            IN  /\ block = AttachedBlock => (wt.branch = sMain /\ ~wt.isDetached)
                /\ block = DetachedBlock => (wt.isDetached /\ wt.branch = sSha)

\* C7: one record per `worktree <path>` line, in input order. While the
\* loop runs, the records committed are those of the blocks that a blank
\* line or a following `worktree` line has ended; after the loop the block
\* the input ended in is committed too. Lines outside a block (before the
\* first `worktree` line, after a blank line) change nothing: a block
\* without lines of its own yields the record as the `worktree` line made it.
C7_OneRecordPerWorktreeLine ==
    LET idx == WorktreeLineIdx(wtLines) IN
    /\ wtPc = "parsing" =>
          LET ended == {i \in 1..Len(idx) : BlockEnd(wtLines, idx[i]) < wtPos} IN
          /\ Len(worktrees) = Cardinality(ended)
          /\ \A i \in ended :
                worktrees[i].path = SubstringFrom(wtLines[idx[i]], Len(sWorktreePfx))
    /\ ListingParsed => RecordsMatchWorktreeLines
    /\ (ListingParsed /\ wtPc = "postpass" /\ wtIdx = 1) =>
          \A i \in 1..Len(idx) :
              BlockLines(wtLines, idx[i]) = <<>> =>
                  worktrees[i] = NewWorktree(SubstringFrom(wtLines[idx[i]], Len(sWorktreePfx)))

\* Two records, the first block ended by the second `worktree` line, the
\* second by the end of the input, after a HEAD line outside any block.
C7_Witness ==
    /\ wtPc = "done"
    /\ wtLines = <<sHeadPfx \o sSha, sWorktreePfx \o sRepoR, sWorktreePfx \o sWtPath>>
    /\ Len(repoInfo.worktrees) = 2

MainWorktrees(wts) == {i \in 1..Len(wts) : wts[i].isMain}

\* The listing names the repository's own root exactly once, as git does
ListsMainWorktreeOnce ==
    /\ wtIn.text # Unset
    /\ Cardinality({i \in 1..Len(wtLines) : wtLines[i] = sWorktreePfx \o sRepoR}) = 1

\* C8: the record returned has a non-empty worktree list with exactly one
\* main worktree, whose normalized path is the repository's root path,
\* whether the worktree listing failed or listed the repository's root, and
\* whatever the commit lookups did.
C8_ExactlyOneMainWorktree ==
    (wtPc = "done" /\ (wtIn.text = Unset \/ ListsMainWorktreeOnce)) =>
        /\ Len(repoInfo.worktrees) >= 1
        /\ Cardinality(MainWorktrees(repoInfo.worktrees)) = 1
        /\ \A i \in MainWorktrees(repoInfo.worktrees) :
              PathNormalize(repoInfo.worktrees[i].path) = PathNormalize(repoInfo.path)

\* What holds of the code: with a listing that names the root once and a
\* root path without trailing separator there is exactly one main worktree.
C8_HoldsWhenListedAndNoTrailingSeparator ==
    (wtPc = "done" /\ ListsMainWorktreeOnce /\ wtIn.repoPath = sRepoR) =>
        /\ Cardinality(MainWorktrees(repoInfo.worktrees)) = 1
        /\ \A i \in MainWorktrees(repoInfo.worktrees) :
              PathNormalize(repoInfo.worktrees[i].path) = PathNormalize(repoInfo.path)

HeadLines(block) == {j \in 1..Len(block) : StartsWith(block[j], sHeadPfx)}

\* The short hash the parser took from the last HEAD line of a block
ProvisionalHash(block) ==
    IF HeadLines(block) = {} THEN Unset
    ELSE SubstringTo(SubstringFrom(block[SetMax(HeadLines(block))], Len(sHeadPfx)),
                     ShortHashLen)

MAX_DEPTH == 10

ChainDepth == 12

MaxRoots == 2

pA == <<"/", "a">>
pAB == <<"/", "a", "/", "b">>
pABSlash == <<"/", "a", "/", "b", "/">>
pABR == <<"/", "a", "/", "b", "/", "r">>
pAS == <<"/", "a", "/", "s">>
pANm == <<"/", "a", "/", "n", "o", "d", "e", "_", "m", "o", "d", "u", "l", "e", "s">>
pANmM == <<"/", "a", "/", "n", "o", "d", "e", "_", "m", "o", "d", "u", "l", "e", "s", "/", "m">>
pD == <<"/", "d">>
pDC == <<"/", "d", "/", "c">>
pU == <<"/", "u">>
nB == <<"b">>
nR == <<"r">>
nS == <<"s">>
nL == <<"l">>
nF == <<"f">>
nM == <<"m">>
nC == <<"c">>
nDotGit == <<".", "g", "i", "t">>
nNodeModules == <<"n", "o", "d", "e", "_", "m", "o", "d", "u", "l", "e", "s">>
nVscode == <<".", "v", "s", "c", "o", "d", "e">>
nDist == <<"d", "i", "s", "t">>
nBuild == <<"b", "u", "i", "l", "d">>
nTarget == <<"t", "a", "r", "g", "e", "t">>

SKIP_DIRECTORIES == {nNodeModules, nVscode, nDist, nBuild, nTarget, nDotGit}

\* the directory names of the default ignore patterns **/<name>/**
IgnoreDirNames == {nNodeModules, nVscode, nDist, nBuild, nTarget}

\* Minimatch(**/<name>/**, {dot: true}).match(targetPath): some segment
\* before the last one is <name>
shouldIgnorePath(targetPath) ==
    LET segs == Split(targetPath, "/") IN
    \E i \in 1..(Len(segs) - 1) : segs[i] \in IgnoreDirNames

\* /d followed by k times /c
ChainDir(k) == pD \o Concat([i \in 1..k |-> <<"/">> \o nC])

ChainDirs == {ChainDir(k) : k \in 0..ChainDepth}

AllDirs == {pA, pAB, pABR, pAS, pANm, pANmM} \cup ChainDirs

NoGit == 0 - 1

BKinds == {"plain", "gitdir", "gitfile", "unreadable"}

FsTrees == [bKind : BKinds, gitDepth : {NoGit} \cup 0..ChainDepth]

\* /a/l is a symbolic link to /a: the tree has a cycle
pAL == pA \o <<"/">> \o nL

RECURSIVE ResolveLinks(_)
ResolveLinks(p) ==
    IF p = pAL THEN pA
    ELSE IF StartsWith(p, pAL \o <<"/">>)
    THEN ResolveLinks(pA \o SubSeq(p, Len(pAL) + 1, Len(p)))
    ELSE p

\* the directory a path names: a trailing separator does not matter, and a link is
\* followed
Physical(dirPath) == ResolveLinks(StripTrailingSlashes(PathNormalize(dirPath)))

Dirent(name, type) == [name |-> name, type |-> type]

GitDirent(type) == <<Dirent(nDotGit, type)>>

\* The entries of a directory, in the order readdir gives them
Entries(fs, dir) ==
    IF dir = pA
    THEN <<Dirent(nB, "dir"), Dirent(nF, "file"), Dirent(nL, "symlink"),
           Dirent(nNodeModules, "dir"), Dirent(nS, "dir")>>
    ELSE IF dir = pAB
    THEN (IF fs.bKind = "gitdir" THEN GitDirent("dir")
          ELSE IF fs.bKind = "gitfile" THEN GitDirent("file") ELSE <<>>)
         \o <<Dirent(nR, "dir")>>
    ELSE IF dir \in {pABR, pAS, pANmM} THEN GitDirent("dir") \o <<Dirent(nF, "file")>>
    ELSE IF dir = pANm THEN <<Dirent(nM, "dir")>>
    ELSE IF dir \in ChainDirs
    THEN (IF fs.gitDepth # NoGit /\ dir = ChainDir(fs.gitDepth) THEN GitDirent("dir") ELSE <<>>)
         \o (IF dir # ChainDir(ChainDepth) THEN <<Dirent(nC, "dir")>> ELSE <<>>)
    ELSE <<>>

\* fs.readdir(dirPath) resolves: the directory exists and may be listed
CanRead(fs, dirPath) ==
    /\ Physical(dirPath) \in AllDirs
    /\ ~(Physical(dirPath) = pAB /\ fs.bKind = "unreadable")

\* fs.readdir(dirPath, { withFileTypes: true })
Readdir(fs, dirPath) == Entries(fs, Physical(dirPath))

\* Dirent.isFile, isDirectory, isSymbolicLink: the type of the entry
\* itself, a link to a directory is not a directory
IsFile(entry) == entry.type = "file"
IsDirectory(entry) == entry.type = "dir"
IsSymbolicLink(entry) == entry.type = "symlink"

\* The record of a repository root: the fields the walker decides. Its
\* git metadata is the subject of extractRepositoryInfo above.
ScanRecord(dirPath, isGitFile) ==
    [path |-> dirPath, name |-> PathBasename(dirPath), isSubmodule |-> isGitFile]

TooDeepOff(depth) == depth >= MAX_DEPTH

RECURSIVE ChildCallsFollowLinks(_, _, _)
ChildCallsFollowLinks(entries, dirPath, depth) ==
    IF entries = <<>> THEN <<>>
    ELSE LET entry == Head(entries) IN
         (IF /\ (IsDirectory(entry) \/ IsSymbolicLink(entry))
             /\ entry.name \notin SKIP_DIRECTORIES
          THEN <<[dirPath |-> PathJoin(dirPath, entry.name), depth |-> depth + 1]>>
          ELSE <<>>)
         \o ChildCallsFollowLinks(Tail(entries), dirPath, depth)

TooDeep(depth) == depth > MAX_DEPTH

\* the calls scan(path.join(dirPath, entry.name), depth + 1) of the for loop
RECURSIVE ChildCalls(_, _, _)
ChildCalls(entries, dirPath, depth) ==
    IF entries = <<>> THEN <<>>
    ELSE LET entry == Head(entries) IN
         (IF /\ IsDirectory(entry) /\ ~IsSymbolicLink(entry)
             /\ entry.name \notin SKIP_DIRECTORIES
          THEN <<[dirPath |-> PathJoin(dirPath, entry.name), depth |-> depth + 1]>>
          ELSE <<>>)
         \o ChildCalls(Tail(entries), dirPath, depth)

ReaddirAborts(st, dirPath) ==
    [st EXCEPT !.stack = <<>>, !.repositories = <<>>]

\* catch (error) { console.warn(...) }: the call returns, the walk goes on
ReaddirFails(st, dirPath) ==
    [st EXCEPT !.warned = @ \cup {dirPath}]

ScanCallDescendsBelowGit(fs, st) ==
    LET dirPath == Head(st.stack).dirPath
        depth == Head(st.stack).depth
        returned == [st EXCEPT !.stack = Tail(@)]
        read == [returned EXCEPT !.readLog = @ \cup {dirPath}]
    IN  IF TooDeep(depth) THEN returned
        ELSE IF shouldIgnorePath(dirPath) THEN returned
        ELSE IF ~CanRead(fs, dirPath) THEN ReaddirFails(read, dirPath)
        ELSE LET entries == Readdir(fs, dirPath)
                 gitEntries == SelectSeq(entries, LAMBDA e : e.name = nDotGit)
                 below == [read EXCEPT
                             !.stack = ChildCalls(entries, dirPath, depth) \o @]
             IN  IF gitEntries # <<>> /\ ~IsFile(gitEntries[1])
                    /\ PathNormalize(dirPath) \notin st.seenPaths
                 THEN [below EXCEPT
                         !.seenPaths = @ \cup {PathNormalize(dirPath)},
                         !.repositories =
                             Append(@, ScanRecord(dirPath, IsFile(gitEntries[1])))]
                 ELSE below

\* One call scan(dirPath, depth), the first of st.stack
ScanCall(fs, st) ==
    LET dirPath == Head(st.stack).dirPath
        depth == Head(st.stack).depth
        returned == [st EXCEPT !.stack = Tail(@)]
        read == [returned EXCEPT !.readLog = @ \cup {dirPath}]
    IN  IF TooDeep(depth) THEN returned
        ELSE IF shouldIgnorePath(dirPath) THEN returned
        ELSE IF ~CanRead(fs, dirPath) THEN ReaddirFails(read, dirPath)
        ELSE LET entries == Readdir(fs, dirPath)
                 gitEntries == SelectSeq(entries, LAMBDA e : e.name = nDotGit)
             IN  IF gitEntries # <<>>
                 THEN LET gitEntry == gitEntries[1]
                          normalizedPath == PathNormalize(dirPath)
                      IN  IF IsFile(gitEntry) THEN read
                          ELSE IF normalizedPath \in st.seenPaths THEN read
                          ELSE [read EXCEPT
                                  !.seenPaths = @ \cup {normalizedPath},
                                  !.repositories =
                                      Append(@, ScanRecord(dirPath, IsFile(gitEntry)))]
                 ELSE [read EXCEPT
                         !.stack = ChildCalls(entries, dirPath, depth) \o @]

\* scanAllConfiguredPaths: for (const repo of repos), acc = [all, seen]
RECURSIVE MergeRepos(_, _)
MergeRepos(repos, acc) ==
    IF repos = <<>> THEN acc
    ELSE LET repo == Head(repos)
             normalizedPath == PathNormalize(repo.path)
         IN  MergeRepos(Tail(repos),
                 IF normalizedPath \in acc.seen THEN acc
                 ELSE [all |-> Append(acc.all, repo),
                       seen |-> acc.seen \cup {normalizedPath}])

(***************************************************************************)
(* One run of scanAndStore over a tree and a configuration.                *)
(***************************************************************************)
ScanRoots == {pA, pAB, pABSlash, pANm, pD, pDC, pU}

\* The attributes of a part of the tree that no configured root reaches
\* keep one value.
RelevantTree(fs, paths) ==
    /\ fs.bKind # "plain" => \E i \in 1..Len(paths) : paths[i] \in {pA, pAB, pABSlash}
    /\ fs.gitDepth # NoGit => \E i \in 1..Len(paths) : paths[i] \in {pD, pDC}

ScanInit ==
    /\ scPc = "idle"
    /\ fsTree \in FsTrees
    /\ configuredPaths \in SeqsUpTo(ScanRoots, MaxRoots)
    /\ RelevantTree(fsTree, configuredPaths)
    /\ rootIdx = 0 /\ stack = <<>> /\ repositories = <<>> /\ seenPaths = {}
    /\ allRepositories = <<>> /\ allSeenPaths = {} /\ readLog = {} /\ warned = {}
    /\ notifications = 0 /\ stored = Unset
    /\ UrlOff
    /\ WtOff
    /\ TreeOff
    /\ LiveOff

\* scanAndStore calls scanner.scanAllConfiguredPaths()
StartScan ==
    /\ scPc = "idle"
    /\ scPc' = "root"
    /\ rootIdx' = 1
    /\ allRepositories' = <<>>
    /\ allSeenPaths' = {}
    /\ UNCHANGED <<fsTree, configuredPaths, stack, repositories, seenPaths, readLog,
                   warned, notifications, stored, urlVars, wtVars, treeVars, liveVars>>

\* scanPath(configPath) starts: scan(basePath, 0)
BeginRoot ==
    /\ scPc = "root"
    /\ rootIdx <= Len(configuredPaths)
    /\ scPc' = "walk"
    /\ repositories' = <<>>
    /\ seenPaths' = {}
    /\ stack' = <<[dirPath |-> configuredPaths[rootIdx], depth |-> 0]>>
    /\ UNCHANGED <<fsTree, configuredPaths, rootIdx, allRepositories, allSeenPaths,
                   readLog, warned, notifications, stored, urlVars, wtVars, treeVars, liveVars>>

\* the next call of scan
ScanDir ==
    /\ scPc = "walk"
    /\ stack # <<>>
    /\ LET st == ScanCall(fsTree, [stack |-> stack, repositories |-> repositories,
                                   seenPaths |-> seenPaths, readLog |-> readLog,
                                   warned |-> warned])
       IN  /\ stack' = st.stack
           /\ repositories' = st.repositories
           /\ seenPaths' = st.seenPaths
           /\ readLog' = st.readLog
           /\ warned' = st.warned
    /\ UNCHANGED <<scPc, fsTree, configuredPaths, rootIdx, allRepositories, allSeenPaths,
                   notifications, stored, urlVars, wtVars, treeVars, liveVars>>

\* scanPath returns; its records are merged and the next root is taken
EndRoot ==
    /\ scPc = "walk"
    /\ stack = <<>>
    /\ LET merged == MergeRepos(repositories, [all |-> allRepositories, seen |-> allSeenPaths])
       IN  /\ allRepositories' = merged.all
           /\ allSeenPaths' = merged.seen
    /\ rootIdx' = rootIdx + 1
    /\ scPc' = "root"
    /\ UNCHANGED <<fsTree, configuredPaths, stack, repositories, seenPaths, readLog,
                   warned, notifications, stored, urlVars, wtVars, treeVars, liveVars>>

\* scanAllConfiguredPaths returns allRepositories
ReturnAll ==
    /\ scPc = "root"
    /\ rootIdx > Len(configuredPaths)
    /\ scPc' = "save"
    /\ UNCHANGED <<fsTree, configuredPaths, rootIdx, stack, repositories, seenPaths,
                   allRepositories, allSeenPaths, readLog, warned, notifications, stored,
                   urlVars, wtVars, treeVars, liveVars>>

\* await storage.saveRepositories(repos)
Save ==
    /\ scPc = "save"
    /\ stored' = allRepositories
    /\ scPc' = "done"
    /\ UNCHANGED <<fsTree, configuredPaths, rootIdx, stack, repositories, seenPaths,
                   allRepositories, allSeenPaths, readLog, warned, notifications,
                   urlVars, wtVars, treeVars, liveVars>>

\* saveRepositories rejects: catch (error) { showErrorMessage(...) }
SaveFails ==
    /\ scPc = "save"
    /\ notifications' = notifications + 1
    /\ scPc' = "done"
    /\ UNCHANGED <<fsTree, configuredPaths, rootIdx, stack, repositories, seenPaths,
                   allRepositories, allSeenPaths, readLog, warned, stored,
                   urlVars, wtVars, treeVars, liveVars>>

ScanNext ==
    \/ StartScan
    \/ BeginRoot
    \/ ScanDir
    \/ EndRoot
    \/ ReturnAll
    \/ Save
    \/ SaveFails

SpecScan == ScanInit /\ [][ScanNext]_vars

(***************************************************************************)
(* C1 - C5: what the walker returns, stated over the tree itself.          *)
(***************************************************************************)
Segments(dirPath) == NonEmptyParts(Split(dirPath, "/"))

PathOfSegments(segs) == Concat([i \in 1..Len(segs) |-> <<"/">> \o segs[i]])

IsUnder(root, dir) ==
    /\ Len(Segments(root)) <= Len(Segments(dir))
    /\ SubSeq(Segments(dir), 1, Len(Segments(root))) = Segments(root)

\* How many levels dirPath lies below root
DepthBelow(root, dirPath) ==
    Len(Segments(Physical(dirPath))) - Len(Segments(Physical(root)))

\* "none", or the type of the .git entry of a directory
GitType(fs, dir) ==
    LET git == {i \in 1..Len(Entries(fs, dir)) : Entries(fs, dir)[i].name = nDotGit} IN
    IF git = {} THEN "none" ELSE Entries(fs, dir)[SetMin(git)].type

\* "absent", or the type of the entry under which dir is listed in its parent
TypeInParent(fs, dir) ==
    LET segs == Segments(dir)
        siblings == Entries(fs, PathOfSegments(DropLast(segs)))
        own == {i \in 1..Len(siblings) : siblings[i].name = segs[Len(segs)]}
    IN  IF own = {} THEN "absent" ELSE siblings[SetMin(own)].type

\* The directories from root down to dir, both included
OnTheWay(root, dir) ==
    {PathOfSegments(SubSeq(Segments(dir), 1, k)) :
        k \in Len(Segments(root))..Len(Segments(dir))}

\* Every directory from the scan root down to dir is readable, is not a
\* symbolic link, is not denylisted or ignored, and the ones above dir
\* contain no .git entry
OpenWay(fs, root, dir) ==
    /\ IsUnder(Physical(root), dir)
    /\ ~shouldIgnorePath(root)
    /\ \A q \in OnTheWay(Physical(root), dir) :
          /\ CanRead(fs, q)
          /\ q # dir => GitType(fs, q) = "none"
          /\ q # Physical(root) =>
                /\ TypeInParent(fs, q) = "dir"
                /\ Segments(q)[Len(Segments(q))] \notin SKIP_DIRECTORIES
                /\ ~shouldIgnorePath(q)

\* The repositories (directories with a .git directory) within the depth
\* ceiling of a scan root, with an open way to them
WithinReach(fs, root) ==
    {dir \in AllDirs : /\ GitType(fs, dir) = "dir"
                       /\ OpenWay(fs, root, dir)
                       /\ DepthBelow(root, dir) <= MAX_DEPTH}

RecordPaths(records) == {records[i].path : i \in 1..Len(records)}

ScanPathReturned == scPc = "walk" /\ stack = <<>>

ScanAllReturned == scPc \in {"save", "done"}

\* C1: scanPath never returns a repository more than 10 levels below the
\* scan root (the root is depth 0), and when it returns it has a record for
\* every repository at depth <= 10 to which every directory on the way is
\* readable, not a symbolic link, not denylisted or ignored and without a
\* .git entry. A repository is a directory holding a .git directory; a
\* directory holding a .git file is the subject of C3.
C1_DepthCeiling ==
    scPc = "walk" =>
        /\ \A path \in RecordPaths(repositories) :
              /\ IsUnder(Physical(configuredPaths[rootIdx]), Physical(path))
              /\ DepthBelow(configuredPaths[rootIdx], path) <= MAX_DEPTH
        /\ stack = <<>> =>
              \A dir \in WithinReach(fsTree, configuredPaths[rootIdx]) :
                  \E path \in RecordPaths(repositories) : Physical(path) = dir

\* The repository sits 11 levels below /d and 10 below /d/c: the scan of /d
\* returned nothing, the scan of /d/c returns it
C1_Witness ==
    /\ ScanPathReturned
    /\ configuredPaths = <<pD, pDC>>
    /\ rootIdx = 2
    /\ fsTree.gitDepth = MAX_DEPTH + 1
    /\ allRepositories = <<>>
    /\ Len(repositories) = 1
    /\ DepthBelow(pDC, repositories[1].path) = MAX_DEPTH
    /\ DepthBelow(pD, repositories[1].path) = MAX_DEPTH + 1

\* C2: the list scanAllConfiguredPaths returns has no two records with
\* equal normalized paths, and no two records of one physical repository.
C2_OneRecordPerPhysicalRepository ==
    ScanAllReturned =>
        \A i, j \in 1..Len(allRepositories) :
            i # j =>
                /\ PathNormalize(allRepositories[i].path) # PathNormalize(allRepositories[j].path)
                /\ Physical(allRepositories[i].path) # Physical(allRepositories[j].path)

\* The first half of C2 alone: normalized paths are pairwise different
C2_NormalizedPathsDiffer ==
    \A i, j \in 1..Len(allRepositories) :
        i # j => PathNormalize(allRepositories[i].path) # PathNormalize(allRepositories[j].path)

\* Two records of one repository come only from a root that is itself the
\* repository, written once with and once without a trailing separator
C2_DuplicateOnlyForRootWithTrailingSeparator ==
    \A i, j \in 1..Len(allRepositories) :
        (i # j /\ Physical(allRepositories[i].path) = Physical(allRepositories[j].path)) =>
            /\ {allRepositories[i].path, allRepositories[j].path} = {pAB, pABSlash}
            /\ \E k \in 1..Len(configuredPaths) : configuredPaths[k] = pABSlash

\* C3: a directory the walker read whose .git entry is a regular file has
\* a record in the scan result, as a directory with a .git directory has.
C3_GitFileIsRepositoryRoot ==
    ScanAllReturned =>
        \A dirPath \in readLog :
            GitType(fsTree, Physical(dirPath)) = "file" =>
                \E path \in RecordPaths(allRepositories) : Physical(path) = Physical(dirPath)

\* What the walker does with a .git file: no record, and nothing below the
\* directory is read
C3_GitFileDirectoryIsSkipped ==
    \A dirPath \in readLog :
        GitType(fsTree, Physical(dirPath)) = "file" =>
            /\ \A path \in RecordPaths(allRepositories) \cup RecordPaths(repositories) :
                  Physical(path) # Physical(dirPath)
            /\ (stack = <<>> /\ configuredPaths = <<dirPath>>) => readLog = {dirPath}

\* C4: a directory that cannot be read has no record and ends nothing:
\* every repository within reach of a configured root is in the list that
\* scanAllConfiguredPaths returns.
C4_UnreadableDirectoryFailsSoft ==
    ScanAllReturned =>
        /\ \A dirPath \in warned :
              /\ ~CanRead(fsTree, dirPath)
              /\ \A path \in RecordPaths(allRepositories) : ~IsUnder(Physical(dirPath), Physical(path))
        /\ \A k \in 1..Len(configuredPaths) :
              \A dir \in WithinReach(fsTree, configuredPaths[k]) :
                  \E path \in RecordPaths(allRepositories) : Physical(path) = dir

\* The root /u and the directory /a/b could not be read; /a/s, read after
\* /a/b under the root after /u, is in the result
C4_Witness ==
    /\ ScanAllReturned
    /\ configuredPaths = <<pU, pA>>
    /\ warned = {pU, pAB}
    /\ RecordPaths(allRepositories) = {pAS}

UnscannableRoots ==
    {k \in 1..Len(configuredPaths) : ~CanRead(fsTree, configuredPaths[k])}

\* C5: a run with one configured root that cannot be scanned ends with
\* exactly one error notification, and with the repositories of the other
\* roots stored.
C5_OneNotificationForUnscannableRoot ==
    (scPc = "done" /\ Cardinality(UnscannableRoots) = 1) =>
        /\ notifications = 1
        /\ stored = allRepositories

\* What the code does: the root is reported by console.warn only, and a
\* notification is shown only when the records were not stored
C5_UnscannableRootIsOnlyWarned ==
    /\ ScanAllReturned =>
          \A k \in UnscannableRoots :
              configuredPaths[k] \in warned \/ shouldIgnorePath(configuredPaths[k])
    /\ scPc = "save" => notifications = 0
    /\ scPc = "done" => (notifications = 0 /\ stored = allRepositories)
                        \/ (notifications = 1 /\ stored = Unset)

(***************************************************************************)
(* The tree view: treeNodes.ts and RepositoryTreeDataProvider.             *)
(*                                                                         *)
(* A node is a record of the fields of the TreeItem and of the node class; *)
(* a field a node class does not have is Unset. The children map of the    *)
(* owner nodes of one domain is kept as the sequence of the owner nodes in *)
(* the order they were created, each with the index of its parent: a Map   *)
(* iterates in insertion order, and a key is set once.                     *)
(***************************************************************************)
sDomainIdPfx == <<"d", "o", "m", "a", "i", "n", ":">>
sOwnerIdPfx == <<"o", "w", "n", "e", "r", ":">>
sRepoIdPfx == <<"r", "e", "p", "o", ":">>
sWorktreeIdPfx == <<"w", "o", "r", "k", "t", "r", "e", "e", ":">>
sNoRemoteGroupId == <<"n", "o", "-", "r", "e", "m", "o", "t", "e", "-", "g", "r", "o", "u", "p">>
sLocalGroupKey == <<"l", "o", "c", "a", "l", "-", "g", "r", "o", "u", "p">>
sLocal == <<"l", "o", "c", "a", "l">>
sUriScheme == <<"g", "i", "t", "-", "r", "e", "p", "o", "s", "i", "t", "o", "r", "i", "e", "s", ":">>
sEmptyStateLabel == <<"t", "r", "e", "e", "N", "o", "d", "e", ".", "e", "m", "p", "t", "y", "S", "t", "a", "t", "e", ".", "l", "a", "b", "e", "l">>
sLocalGroupLabel == <<"t", "r", "e", "e", "N", "o", "d", "e", ".", "l", "o", "c", "a", "l", "G", "r", "o", "u", "p", ".", "l", "a", "b", "e", "l">>

\* The order localeCompare gives to the characters of the names used here
\* (digits, then lower-case letters)
sCollation == <<"0", "1", "2", "3", "4", "5", "6", "7", "8", "9", "a", "b", "c", "d", "e", "f", "g", "h", "i", "j", "k", "l", "m", "n", "o", "p", "q", "r", "s", "t", "u", "v", "w", "x", "y", "z">>

CharRank(c) == SetMin({i \in 1..Len(sCollation) : sCollation[i] = c})

\* String.prototype.localeCompare: negative, 0 or positive
RECURSIVE LocaleCompare(_, _)
LocaleCompare(a, b) ==
    IF a = <<>> /\ b = <<>> THEN 0
    ELSE IF a = <<>> THEN 0 - 1
    ELSE IF b = <<>> THEN 1
    ELSE IF a[1] = b[1] THEN LocaleCompare(Tail(a), Tail(b))
    ELSE IF CharRank(a[1]) < CharRank(b[1]) THEN 0 - 1 ELSE 1

\* The compare functions handed to sort: of OwnerNode.getChildren, and of
\* the worktrees of a repository node
CompareBy(how, a, b) ==
    IF how = "children"
    THEN IF a.kind = "OwnerNode" /\ b.kind = "RepositoryNode" THEN 0 - 1
         ELSE IF a.kind = "RepositoryNode" /\ b.kind = "OwnerNode" THEN 1
         ELSE IF a.kind = "OwnerNode" /\ b.kind = "OwnerNode"
         THEN LocaleCompare(a.owner, b.owner)
         ELSE LocaleCompare(a.repository.name, b.repository.name)
    ELSE LocaleCompare(a.name, b.name)

\* Array.prototype.sort(compare): stable
RECURSIVE InsertSorted(_, _, _)
InsertSorted(x, sorted, how) ==
    IF sorted = <<>> THEN <<x>>
    ELSE IF CompareBy(how, sorted[Len(sorted)], x) > 0
    THEN Append(InsertSorted(x, DropLast(sorted), how), sorted[Len(sorted)])
    ELSE Append(sorted, x)

RECURSIVE ArraySort(_, _)
ArraySort(array, how) ==
    IF array = <<>> THEN <<>>
    ELSE InsertSorted(array[Len(array)], ArraySort(DropLast(array), how), how)

\* containsCurrentWorkspace(repositories, currentWorkspacePath)
containsCurrentWorkspace(repos, cwp) ==
    IF ~Truthy(cwp) THEN FALSE
    ELSE \E i \in 1..Len(repos) :
            \/ repos[i].path = cwp
            \/ \E w \in 1..Len(repos[i].worktrees) : repos[i].worktrees[w].path = cwp

\* The fields of a node; every node class fills in its own
BlankNode ==
    [kind |-> "", id |-> Unset, label |-> <<>>, collapsibleState |-> "None",
     contextValue |-> "", icon |-> "", domain |-> Unset, owner |-> Unset,
     fullPath |-> Unset, parent |-> 0, repositories |-> <<>>, repository |-> Unset,
     worktree |-> Unset]

EmptyStateNode ==
    [BlankNode EXCEPT !.kind = "EmptyStateNode", !.label = sEmptyStateLabel,
                      !.icon = "info", !.contextValue = "emptyState"]

DomainNode(domain, repos, cwp) ==
    [BlankNode EXCEPT
        !.kind = "DomainNode", !.label = domain, !.domain = domain,
        !.repositories = repos,
        !.collapsibleState =
            IF containsCurrentWorkspace(repos, cwp) THEN "Expanded" ELSE "Collapsed",
        !.id = sDomainIdPfx \o domain, !.icon = "folder", !.contextValue = "domain"]

\* new OwnerNode(owner, fullPath, repositories, domain, currentWorkspacePath);
\* parent is the index of the node whose children map holds it
OwnerNode(owner, fullPath, repos, domain, cwp, parent) ==
    [BlankNode EXCEPT
        !.kind = "OwnerNode", !.label = owner, !.owner = owner, !.fullPath = fullPath,
        !.domain = domain, !.repositories = repos, !.parent = parent,
        !.collapsibleState =
            IF containsCurrentWorkspace(repos, cwp) THEN "Expanded" ELSE "Collapsed",
        !.id = IF Truthy(domain) THEN sOwnerIdPfx \o domain \o <<":">> \o fullPath
               ELSE sOwnerIdPfx \o fullPath,
        !.icon = "folder", !.contextValue = "owner"]

LocalGroupNode(repos) ==
    [BlankNode EXCEPT
        !.kind = "LocalGroupNode", !.label = sLocalGroupLabel, !.repositories = repos,
        !.collapsibleState = "Expanded", !.id = sNoRemoteGroupId, !.icon = "folder",
        !.contextValue = "noRemoteGroup"]

RepositoryNode(repository, cwp) ==
    LET hasWorktrees == Len(repository.worktrees) > 1
        isCurrentlyOpen ==
            /\ Truthy(cwp)
            /\ \/ cwp = repository.path
               \/ \E w \in 1..Len(repository.worktrees) : repository.worktrees[w].path = cwp
    IN  [BlankNode EXCEPT
            !.kind = "RepositoryNode", !.label = repository.name,
            !.repository = repository,
            !.collapsibleState =
                IF hasWorktrees
                THEN (IF isCurrentlyOpen THEN "Expanded" ELSE "Collapsed")
                ELSE "None",
            !.id = sRepoIdPfx \o repository.path,
            !.icon = IF isCurrentlyOpen THEN "repo-selected" ELSE "repo",
            !.contextValue = "repository"]

WorktreeNode(worktree, cwp) ==
    LET isCurrentlyOpen == cwp = worktree.path IN
    [BlankNode EXCEPT
        !.kind = "WorktreeNode", !.label = worktree.name, !.worktree = worktree,
        !.id = sWorktreeIdPfx \o worktree.path,
        !.icon = IF isCurrentlyOpen THEN "git-branch" ELSE "worktree",
        !.contextValue = IF worktree.isMain THEN "mainWorktree" ELSE "worktree"]

\* RepositoryDecorationProvider.setCount(id, count): the map is keyed by the
\* URI git-repositories:<id>
SetCountAdds(decos, id, count) ==
    LET uri == sUriScheme \o id IN
    [k \in (DOMAIN decos) \cup {uri} |->
        IF k = uri THEN (IF uri \in DOMAIN decos THEN decos[uri] + count ELSE count)
        ELSE decos[k]]

SetCount(decos, id, count) ==
    LET uri == sUriScheme \o id IN
    [k \in (DOMAIN decos) \cup {uri} |-> IF k = uri THEN count ELSE decos[k]]

HasAnyRemote(repo) ==
    \E r \in 1..Len(repo.remotes) : Truthy(repo.remotes[r].fetchUrl)

\* repo.remotes.length > 0 && repo.remotes[0].fetchUrl
HasRemote(repo) ==
    Len(repo.remotes) > 0 /\ Truthy(repo.remotes[1].fetchUrl)

HasNoRemote(repo) == ~HasRemote(repo)

\* domainMap: the domains in the order of their first repository, each with
\* its repositories in input order
RECURSIVE GroupByDomain(_, _)
GroupByDomain(repos, domainMap) ==
    IF repos = <<>> THEN domainMap
    ELSE LET repo == Head(repos)
             domain == extractDomain(repo.remotes[1].fetchUrl)
             at == {i \in 1..Len(domainMap) : domainMap[i].domain = domain}
         IN  GroupByDomain(Tail(repos),
                 IF at = {}
                 THEN Append(domainMap, [domain |-> domain, repos |-> <<repo>>])
                 ELSE [domainMap EXCEPT ![SetMin(at)].repos = Append(@, repo)])

\* getRemoteViewRootNodes: [nodes, decorations]
\* return [new EmptyStateNode()]
NoEmptyStateRoots == <<>>
EmptyStateRoots == <<EmptyStateNode>>

getRemoteViewRootNodes(repos, cwp, showCount, decos) ==
    IF Len(repos) = 0 THEN [nodes |-> EmptyStateRoots, decorations |-> decos]
    ELSE LET reposWithRemote == SelectSeq(repos, HasRemote)
             reposWithoutRemote == SelectSeq(repos, HasNoRemote)
             domainMap == GroupByDomain(reposWithRemote, <<>>)
             domainNodes == [i \in 1..Len(domainMap) |->
                                DomainNode(domainMap[i].domain, domainMap[i].repos, cwp)]
             counted[i \in 0..Len(domainMap)] ==
                 IF i = 0 THEN decos
                 ELSE IF showCount
                 THEN SetCount(counted[i - 1], sDomainIdPfx \o domainMap[i].domain,
                               Len(domainMap[i].repos))
                 ELSE counted[i - 1]
             domainDecos == counted[Len(domainMap)]
         IN  IF Len(reposWithoutRemote) > 0
             THEN [nodes |-> Append(domainNodes, LocalGroupNode(reposWithoutRemote)),
                   decorations |-> IF showCount
                                   THEN SetCount(domainDecos, sLocalGroupKey,
                                                 Len(reposWithoutRemote))
                                   ELSE domainDecos]
             ELSE [nodes |-> domainNodes, decorations |-> domainDecos]

RECURSIVE DescendSegmentsUnshared(_, _, _, _, _, _)
DescendSegmentsUnshared(tree, currentNode, fullPath, segments, domain, cwp) ==
    IF segments = <<>> THEN [tree |-> tree, node |-> currentNode]
    ELSE LET segment == Head(segments)
             nextPath == IF Truthy(fullPath) THEN fullPath \o <<"/">> \o segment
                         ELSE segment
         IN  DescendSegmentsUnshared(
                 Append(tree, OwnerNode(segment, nextPath, <<>>, domain, cwp, currentNode)),
                 Len(tree) + 1, nextPath, Tail(segments), domain, cwp)

\* getOwnerNodes, the loop over the segments of one repository: [tree, node]
RECURSIVE DescendSegments(_, _, _, _, _, _)
DescendSegments(tree, currentNode, fullPath, segments, domain, cwp) ==
    IF segments = <<>> THEN [tree |-> tree, node |-> currentNode]
    ELSE LET segment == Head(segments)
             nextPath == IF Truthy(fullPath) THEN fullPath \o <<"/">> \o segment
                         ELSE segment
             childNode == {j \in 1..Len(tree) :
                             tree[j].parent = currentNode /\ tree[j].owner = segment}
         IN  IF childNode = {}
             THEN DescendSegments(
                      Append(tree, OwnerNode(segment, nextPath, <<>>, domain, cwp, currentNode)),
                      Len(tree) + 1, nextPath, Tail(segments), domain, cwp)
             ELSE DescendSegments(tree, SetMin(childNode), nextPath, Tail(segments),
                                  domain, cwp)

\* getOwnerNodes, the loop over the repositories
RECURSIVE BuildOwnerTree(_, _, _, _)
BuildOwnerTree(repos, tree, domain, cwp) ==
    IF repos = <<>> THEN tree
    ELSE LET repo == Head(repos) IN
         IF Len(repo.remotes) = 0 \/ ~Truthy(repo.remotes[1].fetchUrl)
         THEN BuildOwnerTree(Tail(repos), tree, domain, cwp)
         ELSE LET ownerPath == extractOwner(repo.remotes[1].fetchUrl)
                  segments == NonEmptyParts(Split(ownerPath, "/"))
                  at == DescendSegments(tree, 1, <<>>, segments, domain, cwp)
              IN  IF Len(segments) = 0
                  THEN BuildOwnerTree(Tail(repos), tree, domain, cwp)
                  ELSE BuildOwnerTree(Tail(repos),
                           [at.tree EXCEPT ![at.node].repositories = Append(@, repo)],
                           domain, cwp)

\* node.children.values(): the indices of the children, in insertion order
ChildrenOf(tree, node) == SortedSeq({j \in 1..Len(tree) : tree[j].parent = node})

TotalReposOwnOnly(tree, node) == Len(tree[node].repositories)

\* updateDescriptions(node): the number it returns
RECURSIVE TotalRepos(_, _)
TotalRepos(tree, node) ==
    LET kids == ChildrenOf(tree, node)
        sum[k \in 0..Len(kids)] ==
            IF k = 0 THEN Len(tree[node].repositories)
            ELSE sum[k - 1] + TotalRepos(tree, kids[k])
    IN  sum[Len(kids)]

\* updateDescriptions: the counts it publishes
PublishOwnerCounts(tree, domain, showCount, decos) ==
    LET counted[j \in 0..Len(tree)] ==
            IF j = 0 THEN decos
            ELSE IF TotalRepos(tree, j) > 0 /\ showCount
            THEN SetCount(counted[j - 1],
                          sOwnerIdPfx \o (IF Truthy(domain) THEN domain ELSE sLocal)
                              \o <<":">> \o tree[j].fullPath,
                          TotalRepos(tree, j))
            ELSE counted[j - 1]
    IN  counted[Len(tree)]

ContainsOwnOnly(tree, node, cwp) ==
    containsCurrentWorkspace(tree[node].repositories, cwp)

\* OwnerNode.containsCurrentWorkspaceRecursive
RECURSIVE containsCurrentWorkspaceRecursive(_, _, _)
containsCurrentWorkspaceRecursive(tree, node, cwp) ==
    \/ containsCurrentWorkspace(tree[node].repositories, cwp)
    \/ \E j \in 1..Len(tree) :
          tree[j].parent = node /\ containsCurrentWorkspaceRecursive(tree, j, cwp)

\* root.updateExpansionState(currentWorkspacePath), over all the nodes
updateExpansionState(tree, cwp) ==
    IF ~Truthy(cwp) THEN tree
    ELSE [j \in 1..Len(tree) |->
            IF containsCurrentWorkspaceRecursive(tree, j, cwp)
            THEN [tree[j] EXCEPT !.collapsibleState = "Expanded"]
            ELSE tree[j]]

\* OwnerNode.getChildren(currentWorkspacePath)
OwnerGetChildren(tree, node, cwp) ==
    LET kids == ChildrenOf(tree, node) IN
    IF Len(kids) > 0
    THEN ArraySort([k \in 1..Len(kids) |-> tree[kids[k]]], "children")
    ELSE [i \in 1..Len(tree[node].repositories) |->
            RepositoryNode(tree[node].repositories[i], cwp)]

\* getOwnerNodes(domain, repositories): [tree, nodes, decorations]
getOwnerNodes(domain, repos, cwp, showCount, decos) ==
    LET root == OwnerNode(<<>>, <<>>, <<>>, domain, cwp, 0)
        built == BuildOwnerTree(repos, <<root>>, domain, cwp)
        tree == updateExpansionState(built, cwp)
    IN  [tree |-> tree,
         nodes |-> OwnerGetChildren(tree, 1, cwp),
         decorations |-> PublishOwnerCounts(built, domain, showCount, decos)]

\* getChildren(RepositoryNode)
RepositoryGetChildrenUnfiltered(repository, cwp) ==
    [i \in 1..Len(repository.worktrees) |-> WorktreeNode(repository.worktrees[i], cwp)]

RepositoryGetChildren(repository, cwp) ==
    IF Len(repository.worktrees) > 1
    THEN LET secondary == SelectSeq(repository.worktrees, LAMBDA wt : ~wt.isMain)
             sortedWorktrees == ArraySort(secondary, "worktrees")
         IN  [i \in 1..Len(sortedWorktrees) |-> WorktreeNode(sortedWorktrees[i], cwp)]
    ELSE <<>>

(***************************************************************************)
(* The view asks for the children of every node it was given, starting     *)
(* with getChildren(undefined), over a stored list of repositories.        *)
(***************************************************************************)
MaxRepos == 3

pWDirect == <<"/", "w", "/", "d", "i", "r", "e", "c", "t">>
pWZeta == <<"/", "w", "/", "z", "e", "t", "a">>
pWAlpha == <<"/", "w", "/", "a", "l", "p", "h", "a">>
pWProj == <<"/", "w", "/", "p", "r", "o", "j">>
pWLocalA == <<"/", "w", "/", "l", "o", "c", "a", "l", "a">>
pWLocalB == <<"/", "w", "/", "l", "o", "c", "a", "l", "b">>
pElsewhere == <<"/", "w", "/", "o", "t", "h", "e", "r">>
uDirect == <<"h", "t", "t", "p", "s", ":", "/", "/", "g", "i", "t", "h", "u", "b", ".", "c", "o", "m", "/", "o", "r", "g", "/", "d", "i", "r", "e", "c", "t", ".", "g", "i", "t">>
uProject == <<"h", "t", "t", "p", "s", ":", "/", "/", "g", "i", "t", "h", "u", "b", ".", "c", "o", "m", "/", "o", "r", "g", "/", "t", "e", "a", "m", "/", "p", "r", "o", "j", "e", "c", "t", ".", "g", "i", "t">>
uZeta == <<"g", "i", "t", "@", "g", "i", "t", "h", "u", "b", ".", "c", "o", "m", ":", "a", "c", "m", "e", "/", "z", "e", "t", "a", ".", "g", "i", "t">>
uAlpha == <<"g", "i", "t", "@", "g", "i", "t", "h", "u", "b", ".", "c", "o", "m", ":", "a", "c", "m", "e", "/", "a", "l", "p", "h", "a", ".", "g", "i", "t">>
uGitlab == <<"h", "t", "t", "p", "s", ":", "/", "/", "g", "i", "t", "l", "a", "b", ".", "c", "o", "m", "/", "o", "r", "g", "/", "t", "e", "a", "m", "/", "p", "r", "o", "j", ".", "g", "i", "t">>
sUpstream == <<"u", "p", "s", "t", "r", "e", "a", "m">>
sGitlab == <<"g", "i", "t", "l", "a", "b", ".", "c", "o", "m">>
sOrg == <<"o", "r", "g">>
sTeam == <<"t", "e", "a", "m">>
sOrgTeam == <<"o", "r", "g", "/", "t", "e", "a", "m">>

Remote(name, fetchUrl) == [name |-> name, fetchUrl |-> fetchUrl, pushUrl |-> fetchUrl]

MainWorktree(path) ==
    [NewWorktree(path) EXCEPT !.name = PathBasename(path), !.isMain = TRUE,
                              !.branch = sMain]

LinkedWorktree(path) ==
    [NewWorktree(path) EXCEPT !.name = PathBasename(path), !.branch = sWidgets]

StoredRepository(path, remotes, linked) ==
    RepositoryInfo(path, FALSE, remotes, sMain, <<MainWorktree(path)>> \o linked)

rDirect == StoredRepository(pWDirect, <<Remote(sOrigin, uDirect)>>, <<>>)
sWtPathA == <<"/", "r", "-", "a">>
rProject ==
    StoredRepository(sRepoR, <<Remote(sOrigin, uProject)>>,
                     <<LinkedWorktree(sWtPath), LinkedWorktree(sWtPathA)>>)
\* the record of the same repository when the configured root is written "/r/":
\* extractRepositoryInfo names the worktrees and sets isMain against that path
rProjectSlash ==
    RepositoryInfo(sRepoRSlash, FALSE, rProject.remotes, sMain,
                   [i \in 1..Len(rProject.worktrees) |->
                       PostPass(rProject.worktrees[i], sRepoRSlash, "empty", <<>>, <<>>)])
rZeta == StoredRepository(pWZeta, <<Remote(sOrigin, uZeta), Remote(sUpstream, uGitlab)>>, <<>>)
rAlpha == StoredRepository(pWAlpha, <<Remote(sOrigin, uAlpha)>>, <<>>)
rGitlab == StoredRepository(pWProj, <<Remote(sOrigin, uGitlab)>>, <<>>)
rLocalB == StoredRepository(pWLocalB, <<>>, <<>>)
rLocalA == StoredRepository(pWLocalA, <<Remote(sOrigin, <<>>), Remote(sUpstream, uDirect)>>, <<>>)

StoredRepositories == {rDirect, rProject, rZeta, rAlpha, rGitlab, rLocalB, rLocalA}

\* lists of different records, as one scan stores them
StoredLists ==
    {list \in SeqsUpTo(StoredRepositories, MaxRepos) :
        \A i, j \in 1..Len(list) : i # j => list[i] # list[j]}

WorkspacePaths == {Unset, sRepoR, sWtPath, pWZeta, pElsewhere}

\* the element of getChildren(undefined)
RootElement == [BlankNode EXCEPT !.kind = "undefined"]

TreeInit ==
    /\ tvPc = "view"
    /\ tvRepositories \in StoredLists
    /\ currentWorkspacePath \in WorkspacePaths
    /\ showRepositoryCount \in BOOLEAN
    /\ decorations = <<>>
    /\ ownerTrees = <<>>
    /\ tvQueue = <<RootElement>>
    /\ tvLog = <<>>
    /\ tvPrev = <<>>
    /\ UrlOff
    /\ WtOff
    /\ ScanOff
    /\ LiveOff

\* the view takes the children and will ask for theirs
Returned(element, children) ==
    /\ tvLog' = Append(tvLog, [element |-> element, children |-> children])
    /\ tvQueue' = children \o Tail(tvQueue)

\* getChildren(undefined)
GetRootChildren ==
    /\ tvPc = "view" /\ tvQueue # <<>>
    /\ Head(tvQueue).kind = "undefined"
    /\ LET r == getRemoteViewRootNodes(tvRepositories, currentWorkspacePath,
                                       showRepositoryCount, decorations)
       IN  /\ decorations' = r.decorations
           /\ Returned(Head(tvQueue), r.nodes)
    /\ UNCHANGED <<tvPc, tvPrev, tvRepositories, currentWorkspacePath, showRepositoryCount,
                   ownerTrees, urlVars, wtVars, scanVars, liveVars>>

\* getChildren(element) for a DomainNode
GetDomainChildren ==
    /\ tvPc = "view" /\ tvQueue # <<>>
    /\ Head(tvQueue).kind = "DomainNode"
    /\ LET element == Head(tvQueue)
           r == getOwnerNodes(element.domain, element.repositories,
                              currentWorkspacePath, showRepositoryCount, decorations)
       IN  /\ decorations' = r.decorations
           /\ ownerTrees' = [d \in (DOMAIN ownerTrees) \cup {element.domain} |->
                                IF d = element.domain THEN r.tree ELSE ownerTrees[d]]
           /\ Returned(element, r.nodes)
    /\ UNCHANGED <<tvPc, tvPrev, tvRepositories, currentWorkspacePath, showRepositoryCount,
                   urlVars, wtVars, scanVars, liveVars>>

\* The place of an owner node among the owner nodes of its domain
OwnerIndex(tree, element) == SetMin({j \in 1..Len(tree) : tree[j].id = element.id})

\* getChildren(element) for an OwnerNode
GetOwnerChildren ==
    /\ tvPc = "view" /\ tvQueue # <<>>
    /\ Head(tvQueue).kind = "OwnerNode"
    /\ LET element == Head(tvQueue)
           tree == ownerTrees[element.domain]
       IN  Returned(element,
                    OwnerGetChildren(tree, OwnerIndex(tree, element), currentWorkspacePath))
    /\ UNCHANGED <<tvPc, tvPrev, tvRepositories, currentWorkspacePath, showRepositoryCount,
                   decorations, ownerTrees, urlVars, wtVars, scanVars, liveVars>>

\* getChildren(element) for a LocalGroupNode
GetLocalGroupChildren ==
    /\ tvPc = "view" /\ tvQueue # <<>>
    /\ Head(tvQueue).kind = "LocalGroupNode"
    /\ LET element == Head(tvQueue) IN
       Returned(element,
                [i \in 1..Len(element.repositories) |->
                    RepositoryNode(element.repositories[i], currentWorkspacePath)])
    /\ UNCHANGED <<tvPc, tvPrev, tvRepositories, currentWorkspacePath, showRepositoryCount,
                   decorations, ownerTrees, urlVars, wtVars, scanVars, liveVars>>

\* getChildren(element) for a RepositoryNode
GetRepositoryChildren ==
    /\ tvPc = "view" /\ tvQueue # <<>>
    /\ Head(tvQueue).kind = "RepositoryNode"
    /\ Returned(Head(tvQueue),
                RepositoryGetChildren(Head(tvQueue).repository, currentWorkspacePath))
    /\ UNCHANGED <<tvPc, tvPrev, tvRepositories, currentWorkspacePath, showRepositoryCount,
                   decorations, ownerTrees, urlVars, wtVars, scanVars, liveVars>>

\* getChildren(element) for an EmptyStateNode or a WorktreeNode: []
GetLeafChildren ==
    /\ tvPc = "view" /\ tvQueue # <<>>
    /\ Head(tvQueue).kind \in {"EmptyStateNode", "WorktreeNode"}
    /\ Returned(Head(tvQueue), <<>>)
    /\ UNCHANGED <<tvPc, tvPrev, tvRepositories, currentWorkspacePath, showRepositoryCount,
                   decorations, ownerTrees, urlVars, wtVars, scanVars, liveVars>>

\* refresh(): the decorations are cleared when counts are off, the change event fires
\* and the view asks for the whole tree again
Refresh ==
    /\ tvPc = "view" /\ tvQueue = <<>>
    /\ tvPrev = <<>>
    /\ tvPrev' = <<[log |-> tvLog, decorations |-> decorations]>>
    /\ decorations' = IF showRepositoryCount THEN decorations ELSE <<>>
    /\ tvQueue' = <<RootElement>>
    /\ tvLog' = <<>>
    /\ UNCHANGED <<tvPc, tvRepositories, currentWorkspacePath, showRepositoryCount,
                   ownerTrees, urlVars, wtVars, scanVars, liveVars>>

TreeNext ==
    \/ GetRootChildren
    \/ GetDomainChildren
    \/ GetOwnerChildren
    \/ GetLocalGroupChildren
    \/ GetRepositoryChildren
    \/ GetLeafChildren

SpecTree == TreeInit /\ [][TreeNext]_vars

\* The view walks the tree, the provider refreshes and the view walks it again; the
\* stored lists include the two records one scan stores for a repository that is
\* configured as "/r" and as "/r/"
RefreshRepositories == {rDirect, rProject, rProjectSlash, rZeta, rLocalB}

RefreshLists ==
    {list \in SeqsUpTo(RefreshRepositories, MaxRepos) :
        \A i, j \in 1..Len(list) : i # j => list[i] # list[j]}

RefreshInit ==
    /\ tvPc = "view"
    /\ tvRepositories \in RefreshLists
    /\ currentWorkspacePath \in WorkspacePaths
    /\ showRepositoryCount \in BOOLEAN
    /\ decorations = <<>>
    /\ ownerTrees = <<>>
    /\ tvQueue = <<RootElement>>
    /\ tvLog = <<>>
    /\ tvPrev = <<>>
    /\ UrlOff
    /\ WtOff
    /\ ScanOff
    /\ LiveOff

RefreshNext ==
    \/ Refresh
    \/ TreeNext

SpecRefresh == RefreshInit /\ [][RefreshNext]_vars

(***************************************************************************)
(* C12 - C20                                                               *)
(***************************************************************************)
WalkDone == tvPc = "view" /\ tvQueue = <<>>

LogEntries == {tvLog[i] : i \in 1..Len(tvLog)}

SeqRange(seq) == {seq[i] : i \in 1..Len(seq)}

\* The repositories shown as leaves among the children of a call
LeafRepositories(children) ==
    {children[c].repository : c \in {k \in 1..Len(children) : children[k].kind = "RepositoryNode"}}

OwnerChildren(children) ==
    {c \in 1..Len(children) : children[c].kind = "OwnerNode"}

\* C12: every repository in the bucket of an owner node is a repository
\* leaf among the children of that node, also when the node has nested
\* owner nodes, so that once the view has walked the whole tree every
\* repository with a remote was shown.
C12_BucketRepositoriesAreLeaves ==
    /\ \A e \in LogEntries :
          e.element.kind = "OwnerNode" =>
              SeqRange(e.element.repositories) \subseteq LeafRepositories(e.children)
    /\ WalkDone =>
          \A i \in 1..Len(tvRepositories) :
              HasRemote(tvRepositories[i]) =>
                  \E e \in LogEntries : tvRepositories[i] \in LeafRepositories(e.children)

\* An owner node without nested owner nodes shows its bucket
C12_HoldsWithoutNestedOwners ==
    \A e \in LogEntries :
        (e.element.kind = "OwnerNode" /\ OwnerChildren(e.children) = {}) =>
            SeqRange(e.element.repositories) = LeafRepositories(e.children)

\* An owner node with nested owner nodes shows those only
C12_NestedOwnersHideBucket ==
    \A e \in LogEntries :
        (e.element.kind = "OwnerNode" /\ OwnerChildren(e.children) # {}) =>
            LeafRepositories(e.children) = {}

\* The orderings of a list
Orderings(list) ==
    {[i \in 1..Len(list) |-> list[p[i]]] :
        p \in {q \in [1..Len(list) -> 1..Len(list)] :
                  \A i, j \in 1..Len(list) : i # j => q[i] # q[j]}}

NodeIds(nodes) == [i \in 1..Len(nodes) |-> nodes[i].id]

\* The children the provider gives for the node with the id of element when
\* its repositories are repos
ChildrenFor(repos, element, cwp) ==
    LET roots == getRemoteViewRootNodes(repos, cwp, FALSE, <<>>).nodes
        same == {i \in 1..Len(roots) : roots[i].id = element.id}
        domains == {i \in 1..Len(roots) :
                       roots[i].kind = "DomainNode" /\ roots[i].domain = element.domain}
    IN  IF element.kind = "undefined" THEN roots
        ELSE IF element.kind = "DomainNode"
        THEN getOwnerNodes(element.domain, roots[SetMin(same)].repositories,
                           cwp, FALSE, <<>>).nodes
        ELSE IF element.kind = "OwnerNode"
        THEN LET tree == getOwnerNodes(element.domain, roots[SetMin(domains)].repositories,
                                       cwp, FALSE, <<>>).tree
             IN  OwnerGetChildren(tree, OwnerIndex(tree, element), cwp)
        ELSE IF element.kind = "LocalGroupNode"
        THEN LET group == roots[SetMin(same)].repositories IN
             [i \in 1..Len(group) |-> RepositoryNode(group[i], cwp)]
        ELSE IF element.kind = "RepositoryNode"
        THEN RepositoryGetChildren(element.repository, cwp)
        ELSE <<>>

GroupKinds == {"undefined", "DomainNode", "OwnerNode", "LocalGroupNode"}

\* C13: the tree does not depend on the order of the repository list: for
\* every ordering of the same records, the root nodes and the children of
\* every domain, owner and local-group node are the same nodes in the same
\* order.
C13_TreeInvariantUnderPermutation ==
    \A e \in LogEntries :
        e.element.kind \in GroupKinds =>
            \A list \in Orderings(tvRepositories) :
                NodeIds(ChildrenFor(list, e.element, currentWorkspacePath)) = NodeIds(e.children)

\* The children are the same set of nodes for every ordering, and the same
\* sequence where they are owner nodes (the children of a domain node and of
\* an owner node with nested owners)
C13_OwnerNodesInvariantLeavesAndRootsNot ==
    \A e \in LogEntries :
        e.element.kind \in GroupKinds =>
            /\ ChildrenFor(tvRepositories, e.element, currentWorkspacePath) = e.children
            /\ \A list \in Orderings(tvRepositories) :
                  LET other == NodeIds(ChildrenFor(list, e.element, currentWorkspacePath)) IN
                  /\ SeqRange(other) = SeqRange(NodeIds(e.children))
                  /\ Len(other) = Len(e.children)
                  /\ e.element.kind = "DomainNode" => other = NodeIds(e.children)
                  /\ OwnerChildren(e.children) # {} /\ e.element.kind = "OwnerNode" =>
                        other = NodeIds(e.children)

\* a comes before b, or is b, in lexicographic order
LexLE(a, b) ==
    LET differ == {i \in 1..Len(a) : i > Len(b) \/ a[i] # b[i]} IN
    IF differ = {} THEN TRUE
    ELSE LET i == SetMin(differ) IN
         i <= Len(b) /\ CharRank(a[i]) < CharRank(b[i])

OwnersBeforeLeaves(children) ==
    \A i, j \in 1..Len(children) :
        (children[i].kind = "OwnerNode" /\ children[j].kind = "RepositoryNode") => i < j

OwnersInOrder(children) ==
    \A i, j \in 1..Len(children) :
        (i < j /\ children[i].kind = "OwnerNode" /\ children[j].kind = "OwnerNode") =>
            LexLE(children[i].owner, children[j].owner)

LeavesInOrder(children) ==
    \A i, j \in 1..Len(children) :
        (i < j /\ children[i].kind = "RepositoryNode" /\ children[j].kind = "RepositoryNode") =>
            LexLE(children[i].repository.name, children[j].repository.name)

\* C14: the children returned for a node are ordered: owner nodes before
\* repository leaves, owner nodes by segment name, repository leaves by
\* repository name, each in lexicographic order.
C14_SiblingsOrdered ==
    \A e \in LogEntries :
        /\ OwnersBeforeLeaves(e.children)
        /\ OwnersInOrder(e.children)
        /\ LeavesInOrder(e.children)

\* Owner nodes are ordered as claimed; the repository leaves of an owner
\* node and of the local group are in the order of the stored list
C14_OwnersOrderedLeavesInStoredOrder ==
    \A e \in LogEntries :
        /\ OwnersBeforeLeaves(e.children)
        /\ OwnersInOrder(e.children)
        /\ e.element.kind \in {"OwnerNode", "LocalGroupNode"} =>
              \A i, j \in 1..Len(e.children) :
                  (i < j /\ e.children[i].kind = "RepositoryNode"
                         /\ e.children[j].kind = "RepositoryNode") =>
                      \E a, b \in 1..Len(tvRepositories) :
                          /\ a < b
                          /\ tvRepositories[a] = e.children[i].repository
                          /\ tvRepositories[b] = e.children[j].repository

\* The root nodes, once the view has asked for them
RootNodes == IF Len(tvLog) = 0 THEN <<>> ELSE tvLog[1].children

GroupsHolding(repo) ==
    {g \in 1..Len(RootNodes) : repo \in SeqRange(RootNodes[g].repositories)}

\* The host of the first fetch URL of the stored repositories
HostOfFirstRemote(repo) ==
    IF repo.remotes[1].fetchUrl \in {uDirect, uProject, uZeta, uAlpha} THEN sGithub
    ELSE sGitlab

\* C15: every record is in exactly one group: the single local group iff
\* it has no remotes or its first remote has no non-empty fetch URL, else
\* the domain node of the domain of its first remote's fetch URL; the
\* remotes after the first have no part in it.
C15_PlacedByFirstRemote ==
    Len(tvLog) > 0 =>
        /\ Cardinality({g \in 1..Len(RootNodes) : RootNodes[g].kind = "LocalGroupNode"}) <= 1
        /\ \A i \in 1..Len(tvRepositories) :
              LET repo == tvRepositories[i] IN
              /\ Cardinality(GroupsHolding(repo)) = 1
              /\ \A g \in GroupsHolding(repo) :
                    IF Len(repo.remotes) = 0 \/ repo.remotes[1].fetchUrl \in {Unset, <<>>}
                    THEN RootNodes[g].kind = "LocalGroupNode"
                    ELSE /\ RootNodes[g].kind = "DomainNode"
                         /\ RootNodes[g].domain = HostOfFirstRemote(repo)

\* locala has an empty first fetch URL and a second remote on github.com,
\* zeta a first remote on github.com and a second on gitlab.com
C15_Witness ==
    /\ Len(tvLog) > 0
    /\ tvRepositories = <<rLocalA, rZeta, rLocalB>>
    /\ Len(RootNodes) = 2
    /\ RootNodes[1].kind = "DomainNode" /\ RootNodes[1].domain = sGithub
    /\ RootNodes[1].repositories = <<rZeta>>
    /\ RootNodes[2].kind = "LocalGroupNode"
    /\ RootNodes[2].repositories = <<rLocalA, rLocalB>>

\* The owner segments of the first fetch URL of the stored repositories
OwnerSegmentsOf(repo) ==
    LET url == repo.remotes[1].fetchUrl IN
    IF url = uDirect THEN <<sOrg>>
    ELSE IF url \in {uProject, uGitlab} THEN <<sOrg, sTeam>>
    ELSE <<sAcme>>

\* The segment names from the domain root down to an owner node
RECURSIVE SegmentChain(_, _)
SegmentChain(tree, node) ==
    IF tree[node].parent = 0 THEN <<>>
    ELSE Append(SegmentChain(tree, tree[node].parent), tree[node].owner)

DomainRepositories(domain) ==
    {tvRepositories[i] : i \in {k \in 1..Len(tvRepositories) :
        HasRemote(tvRepositories[k]) /\ HostOfFirstRemote(tvRepositories[k]) = domain}}

NonEmptyPrefixes(segs) == {SubSeq(segs, 1, k) : k \in 1..Len(segs)}

\* C16: the owner nodes of a domain are the prefix tree of the owner-path
\* segments of its repositories: the fullPath of a node is the /-join of
\* the segment names from the domain root to it, there is one node for
\* every prefix (repositories with a common prefix share it), every
\* repository is in the bucket of the node of its owner-path, and
\* https://gitlab.com/org/team/proj.git gives owner org holding owner
\* org/team holding the repository.
C16_OwnerNodesFormPrefixTree ==
    \A domain \in DOMAIN ownerTrees :
        LET tree == ownerTrees[domain] IN
        /\ \A j \in 2..Len(tree) :
              /\ tree[j].fullPath = Join(SegmentChain(tree, j), "/")
              /\ tree[j].parent \in 1..(j - 1)
        /\ \A j, k \in 2..Len(tree) : j # k => tree[j].fullPath # tree[k].fullPath
        /\ {SegmentChain(tree, j) : j \in 2..Len(tree)}
              = UNION {NonEmptyPrefixes(OwnerSegmentsOf(repo)) : repo \in DomainRepositories(domain)}
        /\ \A repo \in DomainRepositories(domain) :
              \A j \in 1..Len(tree) :
                  repo \in SeqRange(tree[j].repositories)
                      <=> SegmentChain(tree, j) = OwnerSegmentsOf(repo)
        /\ (domain = sGitlab /\ rGitlab \in SeqRange(tvRepositories)) =>
              \E j, k \in 2..Len(tree) :
                  /\ tree[j].parent = 1 /\ tree[j].fullPath = sOrg
                  /\ tree[k].parent = j /\ tree[k].fullPath = sOrgTeam
                  /\ rGitlab \in SeqRange(tree[k].repositories)

\* direct and project share the owner org on github.com; proj is under
\* org/team on gitlab.com, and shown there
C16_Witness ==
    /\ WalkDone
    /\ tvRepositories = <<rDirect, rProject, rGitlab>>
    /\ Len(ownerTrees[sGithub]) = 3
    /\ Len(ownerTrees[sGitlab]) = 3
    /\ \E e \in LogEntries :
          /\ e.element.kind = "OwnerNode" /\ e.element.domain = sGitlab
          /\ e.element.fullPath = sOrgTeam
          /\ LeafRepositories(e.children) = {rGitlab}

\* The count published for the node with this id, 0 - 1 if there is none
PublishedCount(id) ==
    IF (sUriScheme \o id) \in DOMAIN decorations THEN decorations[sUriScheme \o id]
    ELSE 0 - 1

IsPrefixOf(a, b) == Len(a) <= Len(b) /\ SubSeq(b, 1, Len(a)) = a

\* An owner node and the owner nodes below it
Subtree(tree, node) ==
    {k \in 1..Len(tree) : IsPrefixOf(SegmentChain(tree, node), SegmentChain(tree, k))}

RECURSIVE BucketSizes(_, _)
BucketSizes(tree, nodes) ==
    IF nodes = {} THEN 0
    ELSE LET k == SetMin(nodes) IN
         Len(tree[k].repositories) + BucketSizes(tree, nodes \ {k})

RECURSIVE PublishedSum(_, _)
PublishedSum(tree, nodes) ==
    IF nodes = {} THEN 0
    ELSE LET k == SetMin(nodes) IN
         PublishedCount(tree[k].id) + PublishedSum(tree, nodes \ {k})

TopLevel(tree) == {j \in 1..Len(tree) : tree[j].parent = 1}

\* C17: the count published for an owner node is the number of
\* repositories in its own bucket and in the buckets of all the owner nodes
\* below it, which is its bucket plus the counts of its child owner nodes;
\* the counts of the top-level owner nodes of a domain add up to the count
\* published for the domain node, the number of repositories of the domain.
C17_CountsAddUp ==
    showRepositoryCount =>
        \A domain \in DOMAIN ownerTrees :
            LET tree == ownerTrees[domain] IN
            /\ \A j \in 2..Len(tree) :
                  /\ PublishedCount(tree[j].id) = BucketSizes(tree, Subtree(tree, j))
                  /\ PublishedCount(tree[j].id) =
                        Len(tree[j].repositories)
                        + PublishedSum(tree, {k \in 1..Len(tree) : tree[k].parent = j})
            /\ PublishedSum(tree, TopLevel(tree)) = PublishedCount(sDomainIdPfx \o domain)
            /\ PublishedCount(sDomainIdPfx \o domain) = Cardinality(DomainRepositories(domain))

\* Nothing is published when the setting is off
C17_NoCountsWhenSettingOff == ~showRepositoryCount => decorations = <<>>

\* github.com 3 = org 2 (direct, and project under org/team 1) + acme 1
C17_Witness ==
    /\ WalkDone
    /\ showRepositoryCount
    /\ tvRepositories = <<rDirect, rProject, rZeta>>
    /\ PublishedCount(sDomainIdPfx \o sGithub) = 3
    /\ PublishedCount(sOwnerIdPfx \o sGithub \o <<":">> \o sOrg) = 2
    /\ PublishedCount(sOwnerIdPfx \o sGithub \o <<":">> \o sOrgTeam) = 1
    /\ PublishedCount(sOwnerIdPfx \o sGithub \o <<":">> \o sAcme) = 1

\* The nodes the view was given
GivenNodes == UNION {SeqRange(e.children) : e \in LogEntries}

\* The root path or a worktree path of the repository is the active path
AtActivePath(repo, activePath) ==
    \/ repo.path = activePath
    \/ \E w \in 1..Len(repo.worktrees) : repo.worktrees[w].path = activePath

\* The repositories of a domain node, and of an owner node with all the
\* owner nodes below it
TransitiveRepositories(node) ==
    IF node.kind = "DomainNode" THEN DomainRepositories(node.domain)
    ELSE {repo \in DomainRepositories(node.domain) :
             IsPrefixOf(Split(node.fullPath, "/"), OwnerSegmentsOf(repo))}

ShouldBeExpanded(node) ==
    /\ currentWorkspacePath # Unset
    /\ \E repo \in TransitiveRepositories(node) : AtActivePath(repo, currentWorkspacePath)

\* C18: a domain or owner node is expanded iff the active path is defined
\* and a repository of its own bucket or of an owner node below it, at any
\* depth, has that path as root path or as a worktree path; with no active
\* path every domain and owner node is collapsed.
C18_ExpandedIffHoldsActivePath ==
    \A node \in GivenNodes :
        node.kind \in {"DomainNode", "OwnerNode"} =>
            /\ node.collapsibleState = (IF ShouldBeExpanded(node) THEN "Expanded" ELSE "Collapsed")
            /\ currentWorkspacePath = Unset => node.collapsibleState = "Collapsed"

\* The active path /r-wt is a worktree of project, two owner levels down:
\* github.com, org and org/team are expanded, acme is not
C18_Witness ==
    /\ WalkDone
    /\ currentWorkspacePath = sWtPath
    /\ tvRepositories = <<rDirect, rProject, rZeta>>
    /\ \E dom, org, team, acme \in GivenNodes :
          /\ dom.kind = "DomainNode" /\ dom.collapsibleState = "Expanded"
          /\ org.kind = "OwnerNode" /\ org.fullPath = sOrg /\ org.collapsibleState = "Expanded"
          /\ team.kind = "OwnerNode" /\ team.fullPath = sOrgTeam
          /\ team.collapsibleState = "Expanded"
          /\ acme.kind = "OwnerNode" /\ acme.fullPath = sAcme
          /\ acme.collapsibleState = "Collapsed"

LeafKinds == {"RepositoryNode", "WorktreeNode"}

\* The node carries the icon of the currently open repository or worktree
FlaggedCurrent(node) ==
    \/ node.kind = "RepositoryNode" /\ node.icon = "repo-selected"
    \/ node.kind = "WorktreeNode" /\ node.icon = "git-branch"

OwnPath(node) ==
    IF node.kind = "RepositoryNode" THEN node.repository.path ELSE node.worktree.path

\* C19: a repository node or worktree node is flagged current iff its own
\* path is the active path, so at most one node of the tree is flagged:
\* with the active path /r-wt and the repository /r with the worktrees /r
\* and /r-wt, the worktree node /r-wt is flagged and the repository node /r
\* is not.
C19_CurrentIffOwnPathIsActive ==
    /\ \A node \in GivenNodes :
          node.kind \in LeafKinds =>
              (FlaggedCurrent(node) <=> OwnPath(node) = currentWorkspacePath)
    /\ Cardinality({node \in GivenNodes : node.kind \in LeafKinds /\ FlaggedCurrent(node)}) <= 1

\* A worktree node is flagged as claimed; a repository node is flagged also
\* when the active path is one of its worktrees
C19_RepositoryFlaggedForItsWorktrees ==
    \A node \in GivenNodes :
        /\ node.kind = "WorktreeNode" =>
              (FlaggedCurrent(node) <=> OwnPath(node) = currentWorkspacePath)
        /\ node.kind = "RepositoryNode" =>
              (FlaggedCurrent(node) <=>
                  (currentWorkspacePath # Unset
                   /\ AtActivePath(node.repository, currentWorkspacePath)))

\* C20: the contextValue of a repository node is repositoryOpen when the
\* active path matches it and repository otherwise; that of a worktree node
\* is worktreeOpen (mainWorktreeOpen when isMain) when the active path is
\* its path, and worktree (mainWorktree) otherwise.
C20_ContextValueOpenSuffix ==
    \A node \in GivenNodes :
        /\ node.kind = "RepositoryNode" =>
              node.contextValue =
                  (IF node.repository.path = currentWorkspacePath
                   THEN "repositoryOpen" ELSE "repository")
        /\ node.kind = "WorktreeNode" =>
              node.contextValue =
                  (IF node.worktree.path = currentWorkspacePath
                   THEN (IF node.worktree.isMain THEN "mainWorktreeOpen" ELSE "worktreeOpen")
                   ELSE (IF node.worktree.isMain THEN "mainWorktree" ELSE "worktree"))

\* The contextValue the code gives does not depend on the active path
C20_ContextValueWithoutSuffix ==
    \A node \in GivenNodes :
        /\ node.kind = "RepositoryNode" => node.contextValue = "repository"
        /\ node.kind = "WorktreeNode" =>
              node.contextValue = (IF node.worktree.isMain THEN "mainWorktree" ELSE "worktree")


(***************************************************************************)
(* The activated extension: the scanAndStore runs, the storage and the     *)
(* reload of the tree provider                                             *)
(***************************************************************************)
\* the scanAndStore runs one behaviour starts
MaxRuns == 3

\* the configurations the user switches between, and what the disk holds under a root
Configs == {<<pA>>, <<pD>>}
DiskUnder(root) == IF root = pA THEN <<rDirect>> ELSE <<rZeta, rAlpha>>

\* scanAllConfiguredPaths over a disk that does not change: the records of the
\* configured roots, in order
RECURSIVE ScanAllResult(_)
ScanAllResult(paths) ==
    IF paths = <<>> THEN <<>>
    ELSE DiskUnder(Head(paths)) \o ScanAllResult(Tail(paths))

\* storage.getRepositories(): the stored sequence, empty when nothing was stored
GetRepositoriesUnsaved(state) == <<>>
GetRepositories(state) == IF state = <<>> THEN <<>> ELSE state[1]

\* storage.saveRepositories(records): the stored set is replaced
SaveRepositoriesAppends(state, records) == <<GetRepositories(state) \o records>>
SaveRepositories(state, records) == <<records>>

\* the change notification gives every subscriber the new record sequence
FireSkipsProbe(rcv, records) == [rcv EXCEPT !.provider = Append(@, records)]
FireDidChangeRepositories(rcv, records) ==
    [s \in DOMAIN rcv |-> Append(rcv[s], records)]

\* loadRepositories() once getRepositories() resolved: the list is cached, refresh()
\* clears the decorations when counts are off and fires onDidChangeTreeData
LoadRepositoriesKeepsCache(value, cache, decos, showCount, fires) ==
    [repositories |-> cache, decorations |-> decos, fires |-> fires + 1]
LoadRepositories(value, cache, decos, showCount, fires) ==
    [repositories |-> value,
     decorations |-> IF showCount THEN decos ELSE <<>>,
     fires |-> fires + 1]

\* the provider is constructed (its first loadRepositories() is pending), nothing
\* was saved yet and activate is about to run the first scan
LiveInit ==
    /\ lvPc = "live"
    /\ globalState = <<>>
    /\ lvConfig = <<pA>>
    /\ runs = <<>>
    /\ reloads = <<GetRepositories(globalState)>>
    /\ received = [provider |-> <<>>, probe |-> <<>>]
    /\ saves = <<>>
    /\ lastGet = <<>>
    /\ treeDataFires = 0
    /\ tvPc = "view" /\ tvRepositories = <<>> /\ currentWorkspacePath = Unset
    /\ showRepositoryCount \in BOOLEAN
    /\ decorations = <<>> /\ ownerTrees = <<>> /\ tvQueue = <<>> /\ tvLog = <<>>
    /\ tvPrev = <<>>
    /\ UrlOff
    /\ WtOff
    /\ ScanOff

\* scanAndStore is called: scanAllConfiguredPaths reads the configuration and walks
StartRun(trigger, config) ==
    runs' = Append(runs, [trigger |-> trigger, pc |-> "scan", config |-> config,
                          repos |-> <<>>])

\* activate awaits its scan before it registers the listener and the command
HandlersRegistered == runs # <<>> /\ runs[1].pc \in {"done", "failed"}

InFlight == {i \in 1..Len(runs) : runs[i].pc \in {"scan", "save"}}

\* activate: await scanAndStore(scanner, storage)
Activate ==
    /\ lvPc = "live"
    /\ runs = <<>>
    /\ StartRun("activate", lvConfig)
    /\ UNCHANGED <<lvPc, globalState, lvConfig, reloads, received, saves, lastGet,
                   treeDataFires, urlVars, wtVars, scanVars, treeVars>>

\* the configuration changes: onConfigurationChange(async () => scanAndStore(...))
ConfigurationChange ==
    /\ lvPc = "live"
    /\ HandlersRegistered
    /\ Len(runs) < MaxRuns
    /\ \E config \in Configs \ {lvConfig} :
        /\ lvConfig' = config
        /\ StartRun("configuration", config)
    /\ UNCHANGED <<lvPc, globalState, reloads, received, saves, lastGet,
                   treeDataFires, urlVars, wtVars, scanVars, treeVars>>

\* the command git-repositories.refreshRepositories: withProgress(..., () => scanAndStore(...))
RefreshCommand ==
    /\ lvPc = "live"
    /\ HandlersRegistered
    /\ Len(runs) < MaxRuns
    /\ StartRun("refresh", lvConfig)
    /\ UNCHANGED <<lvPc, globalState, lvConfig, reloads, received, saves, lastGet,
                   treeDataFires, urlVars, wtVars, scanVars, treeVars>>

\* a run's scanAllConfiguredPaths resolves and the run calls saveRepositories(repos)
ScanAndStoreScanned ==
    /\ lvPc = "live"
    /\ \E i \in 1..Len(runs) :
        /\ runs[i].pc = "scan"
        /\ runs' = [runs EXCEPT ![i].pc = "save",
                                ![i].repos = ScanAllResult(runs[i].config)]
    /\ UNCHANGED <<lvPc, globalState, lvConfig, reloads, received, saves, lastGet,
                   treeDataFires, urlVars, wtVars, scanVars, treeVars>>

\* a run's saveRepositories resolves: the stored set is replaced, the subscribers
\* are notified and the provider's listener calls loadRepositories()
ScanAndStoreSaved ==
    /\ lvPc = "live"
    /\ \E i \in 1..Len(runs) :
        /\ runs[i].pc = "save"
        /\ globalState' = SaveRepositories(globalState, runs[i].repos)
        /\ saves' = Append(saves, runs[i].repos)
        /\ received' = FireDidChangeRepositories(received, runs[i].repos)
        /\ reloads' = Append(reloads, GetRepositories(globalState'))
        /\ runs' = [runs EXCEPT ![i].pc = "done"]
    /\ UNCHANGED <<lvPc, lvConfig, lastGet, treeDataFires,
                   urlVars, wtVars, scanVars, treeVars>>

\* a run's saveRepositories rejects: catch (error) { showErrorMessage(...) }
ScanAndStoreFailed ==
    /\ lvPc = "live"
    /\ \E i \in 1..Len(runs) :
        /\ runs[i].pc = "save"
        /\ runs' = [runs EXCEPT ![i].pc = "failed"]
    /\ notifications' = notifications + 1
    /\ UNCHANGED <<lvPc, globalState, lvConfig, reloads, received, saves, lastGet,
                   treeDataFires, urlVars, wtVars, treeVars,
                   scPc, fsTree, configuredPaths, rootIdx, stack, repositories,
                   seenPaths, allRepositories, allSeenPaths, readLog, warned, stored>>

\* the oldest pending getRepositories() of the provider resolves
LoadRepositoriesResolves ==
    /\ lvPc = "live"
    /\ reloads # <<>>
    /\ LET r == LoadRepositories(Head(reloads), tvRepositories, decorations,
                                 showRepositoryCount, treeDataFires)
       IN  /\ tvRepositories' = r.repositories
           /\ decorations' = r.decorations
           /\ treeDataFires' = r.fires
    /\ reloads' = Tail(reloads)
    /\ UNCHANGED <<lvPc, globalState, lvConfig, runs, received, saves, lastGet,
                   tvPc, tvPrev, currentWorkspacePath, showRepositoryCount, ownerTrees,
                   tvQueue, tvLog, urlVars, wtVars, scanVars>>

\* some caller asks the storage for the repositories, once
ProbeGetRepositories ==
    /\ lvPc = "live"
    /\ lastGet = <<>>
    /\ lastGet' = <<[value |-> GetRepositories(globalState), saves |-> Len(saves)]>>
    /\ UNCHANGED <<lvPc, globalState, lvConfig, runs, reloads, received, saves,
                   treeDataFires, urlVars, wtVars, scanVars, treeVars>>

LiveNext ==
    \/ Activate
    \/ ConfigurationChange
    \/ RefreshCommand
    \/ ScanAndStoreScanned
    \/ ScanAndStoreSaved
    \/ ScanAndStoreFailed
    \/ LoadRepositoriesResolves
    \/ ProbeGetRepositories

SpecLive == LiveInit /\ [][LiveNext]_vars

\* a pending reload is resolved by the event loop
SpecLiveFair == SpecLive /\ WF_vars(LoadRepositoriesResolves)


(***************************************************************************)
(* C21, C30: overlapping scan runs                                         *)
(***************************************************************************)
\* every run has returned, and every one of them saved its result
AllFinished == runs # <<>> /\ InFlight = {}
AllSaved == runs # <<>> /\ \A i \in 1..Len(runs) : runs[i].pc = "done"

\* C21: no two scan runs are in flight at the same time: a request that arrives
\* while a run is running waits for it or replaces it
C21_SingleFlight == Cardinality(InFlight) <= 1

\* What the code does keep: the run of activate is alone, because the listener and
\* the command are registered after it was awaited
C21_ActivationRunIsAlone ==
    \A i \in InFlight : runs[i].trigger = "activate" => InFlight = {i}

\* The runs a configuration change or the refresh command start do overlap
C21_HandlersOverlap ==
    ~(\E i, j \in InFlight : i < j /\ runs[i].trigger # "activate")

\* C30: once all overlapping runs have finished, the stored list is the result of
\* the run that was started last
C30_LastStartedRunWins ==
    AllSaved => GetRepositories(globalState) = runs[Len(runs)].repos

\* What the code does keep: the stored list is the one saved last, whichever run
\* saved it
C30_LastSaveWins ==
    saves # <<>> => GetRepositories(globalState) = saves[Len(saves)]

\* A run that was started last and has saved, while the stored list is the
\* result an older run computed from the configuration before the last change
C30_OlderRunOverwrites ==
    ~(/\ AllSaved
      /\ Len(runs) >= 3
      /\ runs[Len(runs)].config = lvConfig
      /\ GetRepositories(globalState) = runs[Len(runs) - 1].repos
      /\ GetRepositories(globalState) # runs[Len(runs)].repos)

(***************************************************************************)
(* C24: the storage                                                        *)
(***************************************************************************)
\* C24: getRepositories gives the empty sequence while nothing was saved and
\* after a save exactly the records saved last, in their order; every subscriber
\* of the change notification is given each saved sequence once
C24_StorageReturnsLastSave ==
    /\ \A k \in 1..Len(lastGet) :
        lastGet[k].value = IF lastGet[k].saves = 0 THEN <<>>
                           ELSE saves[lastGet[k].saves]
    /\ received.provider = saves
    /\ received.probe = saves

\* getRepositories was asked after a second save that replaced a different list
C24_Witness ==
    /\ lastGet # <<>>
    /\ lastGet[1].saves >= 2
    /\ saves[lastGet[1].saves] # saves[lastGet[1].saves - 1]
    /\ lastGet[1].value # <<>>
    /\ Len(received.probe) >= 2

\* getRepositories was asked before anything was saved
C24_WitnessNeverSaved == lastGet # <<>> /\ lastGet[1].saves = 0

(***************************************************************************)
(* C27: the provider follows the storage                                   *)
(***************************************************************************)
\* C27: after every save the provider fires onDidChangeTreeData (every save leaves
\* a reload pending, every pending reload ends and has fired once per reload, the
\* first load included), and when no reload is pending the cached list is the list
\* saved last
C27_ReloadFollowsSave ==
    /\ [](Len(reloads) + treeDataFires = Len(saves) + 1)
    /\ [](reloads = <<>> /\ saves # <<>> => tvRepositories = saves[Len(saves)])
    /\ (reloads # <<>>) ~> (reloads = <<>>)

\* two saves of different lists were reloaded and the view was told each time
C27_Witness ==
    /\ Len(saves) >= 2
    /\ saves[Len(saves)] # saves[Len(saves) - 1]
    /\ reloads = <<>>
    /\ treeDataFires >= 3
    /\ tvRepositories = saves[Len(saves)]


(***************************************************************************)
(* C23: the pipeline is idempotent                                         *)
(***************************************************************************)
\* the view walks the tree again after refresh()
SecondWalk == tvPc = "view" /\ tvPrev # <<>>

\* C23: with the same stored list and the same active path, the second walk of the
\* whole tree gives for every call the children of the first walk (same nodes, ids,
\* order, collapsible state, icon and context value) and ends with the same
\* published counts
C23_SecondWalkIsIdentical ==
    SecondWalk =>
        /\ Len(tvLog) <= Len(tvPrev[1].log)
        /\ \A k \in 1..Len(tvLog) : tvLog[k] = tvPrev[1].log[k]
        /\ tvQueue = <<>> =>
            /\ tvLog = tvPrev[1].log
            /\ decorations = tvPrev[1].decorations

\* a second walk is over, of a tree with nested owners, an expanded node, a node
\* flagged current and published counts
C23_Witness ==
    /\ SecondWalk /\ tvQueue = <<>>
    /\ DOMAIN decorations # {}
    /\ \E e \in LogEntries : \E c, d \in 1..Len(e.children) :
        /\ e.children[c].kind = "OwnerNode"
        /\ e.children[c].collapsibleState = "Expanded"
        /\ c # d
    /\ \E e \in LogEntries : \E c \in 1..Len(e.children) :
        FlaggedCurrent(e.children[c])


(***************************************************************************)
(* C26: the empty state                                                    *)
(***************************************************************************)
\* C26: with an empty repository list the root is exactly one EmptyStateNode, which
\* has no children; with a non-empty list no root node is an EmptyStateNode
C26_EmptyStateIffNoRepositories ==
    \A e \in LogEntries :
        /\ e.element.kind = "undefined" =>
            IF tvRepositories = <<>>
            THEN Len(e.children) = 1 /\ e.children[1].kind = "EmptyStateNode"
            ELSE \A c \in 1..Len(e.children) : e.children[c].kind # "EmptyStateNode"
        /\ e.element.kind = "EmptyStateNode" => e.children = <<>>

\* the view has walked the tree of an empty list: the root call and the call for the
\* EmptyStateNode
C26_Witness ==
    /\ WalkDone
    /\ tvRepositories = <<>>
    /\ Len(tvLog) = 2
    /\ tvLog[2].element.kind = "EmptyStateNode"


(***************************************************************************)
(* C25: the children of a repository node                                  *)
(***************************************************************************)
NonMainWorktrees(repository) ==
    {repository.worktrees[w] : w \in {k \in 1..Len(repository.worktrees) :
                                         ~repository.worktrees[k].isMain}}

\* C25: the children of a repository node with more than one worktree are worktree
\* nodes, one for each of its worktrees that is not flagged main, in the order of
\* the worktree names; a repository node with one worktree or none has no children
C25_ChildrenAreNonMainWorktrees ==
    \A e \in LogEntries :
        e.element.kind = "RepositoryNode" =>
            IF Len(e.element.repository.worktrees) > 1
            THEN /\ \A c \in 1..Len(e.children) :
                       /\ e.children[c].kind = "WorktreeNode"
                       /\ ~e.children[c].worktree.isMain
                 /\ {e.children[c].worktree : c \in 1..Len(e.children)}
                        = NonMainWorktrees(e.element.repository)
                 /\ Len(e.children) = Cardinality(NonMainWorktrees(e.element.repository))
                 /\ \A c \in 1..(Len(e.children) - 1) :
                       LocaleCompare(e.children[c].worktree.name,
                                     e.children[c + 1].worktree.name) <= 0
            ELSE e.children = <<>>

\* a repository node whose two linked worktrees are listed in the other order than
\* their names, and one without linked worktrees
C25_Witness ==
    /\ \E e \in LogEntries :
        /\ e.element.kind = "RepositoryNode"
        /\ Len(e.element.repository.worktrees) = 3
        /\ e.element.repository.worktrees[1].isMain
        /\ Len(e.children) = 2
        /\ e.children[1].worktree = e.element.repository.worktrees[3]
        /\ e.children[2].worktree = e.element.repository.worktrees[2]
    /\ \E e \in LogEntries :
        /\ e.element.kind = "RepositoryNode"
        /\ Len(e.element.repository.worktrees) = 1
        /\ e.children = <<>>


(***************************************************************************)
(* C22: the ids of the nodes                                               *)
(***************************************************************************)
\* the places <<call, position>> of the nodes a log gave to the view
Places(log) == UNION {{<<k, c>> : c \in 1..Len(log[k].children)} : k \in 1..Len(log)}
NodeAt(log, p) == log[p[1]].children[p[2]]

\* an EmptyStateNode has no id
HasId(node) == node.kind # "EmptyStateNode"

\* what a node stands for
Denoted(node) ==
    CASE node.kind = "DomainNode" -> <<node.kind, node.domain>>
      [] node.kind = "OwnerNode" -> <<node.kind, node.domain, node.fullPath>>
      [] node.kind = "RepositoryNode" -> <<node.kind, node.repository.path>>
      [] node.kind = "WorktreeNode" -> <<node.kind, node.worktree.path>>
      [] OTHER -> <<node.kind>>

IdsDistinct(log) ==
    \A p, q \in Places(log) :
        (p # q /\ HasId(NodeAt(log, p)) /\ HasId(NodeAt(log, q)))
            => NodeAt(log, p).id # NodeAt(log, q).id

IdsStable ==
    SecondWalk =>
        \A p \in Places(tvLog) : \A q \in Places(tvPrev[1].log) :
            Denoted(NodeAt(tvLog, p)) = Denoted(NodeAt(tvPrev[1].log, q))
                => NodeAt(tvLog, p).id = NodeAt(tvPrev[1].log, q).id

\* C22: the ids of the nodes of one tree are pairwise distinct, and a node that
\* stands for the same domain, owner path, repository or worktree has the same id
\* in the tree built after a refresh
C22_IdsDistinctAndStable == IdsDistinct(tvLog) /\ IdsStable

\* What the code does keep: the ids are the same on every rebuild
C22_IdsStableAcrossRebuilds == IdsStable

\* two stored records for one physical repository (C2)
DuplicateRecords(repos) ==
    \E i, j \in 1..Len(repos) :
        i # j /\ StripTrailingSlashes(repos[i].path) = StripTrailingSlashes(repos[j].path)

\* What the code does keep: the ids are distinct when no repository is stored twice
C22_DistinctWithoutDuplicateRecords ==
    ~DuplicateRecords(tvRepositories) => IdsDistinct(tvLog)

\* The stored list holds /r and /r/, and the worktree node of /r-wt is given under
\* both repository nodes with the id worktree:/r-wt
C22_SameWorktreeIdUnderTwoRepositories ==
    ~(/\ WalkDone
      /\ \E k, l \in 1..Len(tvLog) :
          /\ k # l
          /\ tvLog[k].element.kind = "RepositoryNode"
          /\ tvLog[l].element.kind = "RepositoryNode"
          /\ tvLog[k].element.id # tvLog[l].element.id
          /\ \E c \in 1..Len(tvLog[k].children), d \in 1..Len(tvLog[l].children) :
              /\ tvLog[k].children[c].id = sWorktreeIdPfx \o sWtPath
              /\ tvLog[l].children[d].id = sWorktreeIdPfx \o sWtPath)


(***************************************************************************)
(* C28: no descent through links or skipped directories, and termination   *)
(***************************************************************************)
\* the calls scan(basePath, 0)
RootCalls == {configuredPaths[i] : i \in 1..Len(configuredPaths)}

\* the type of the entry under which dirPath is listed in the directory above it
EntryTypeOf(fs, dirPath) ==
    LET segs == Segments(dirPath)
        siblings == Entries(fs, Physical(PathOfSegments(DropLast(segs))))
        own == {i \in 1..Len(siblings) : siblings[i].name = segs[Len(segs)]}
    IN  IF own = {} THEN "absent" ELSE siblings[SetMin(own)].type

\* a directory the walker went down into is listed as a directory, not as a
\* symbolic link, and is not named node_modules, .vscode, dist, build, target or .git
DescendedInto(fs, dirPath) ==
    /\ EntryTypeOf(fs, dirPath) = "dir"
    /\ Segments(dirPath)[Len(Segments(dirPath))] \notin SKIP_DIRECTORIES

\* the most entries a directory of the tree has
FanOut == SetMax({Len(Entries(fsTree, dir)) : dir \in AllDirs})

\* the work a pending call scan(dirPath, depth) can still cause: a call beyond the
\* ceiling returns, another one is replaced by at most fan calls one level down
Weight(fan, depth) ==
    IF depth > MAX_DEPTH THEN 1 ELSE (fan + 1) ^ (MAX_DEPTH + 1 - depth)

RECURSIVE WorkOf(_, _)
WorkOf(fan, calls) ==
    IF calls = <<>> THEN 0 ELSE Weight(fan, Head(calls).depth) + WorkOf(fan, Tail(calls))

PendingWork(calls) == LET fan == FanOut IN WorkOf(fan, calls)

\* the guard of some step of the scan holds
StepPossible ==
    \/ scPc = "idle"
    \/ scPc = "root" /\ rootIdx <= Len(configuredPaths)
    \/ scPc = "root" /\ rootIdx > Len(configuredPaths)
    \/ scPc = "walk" /\ stack # <<>>
    \/ scPc = "walk" /\ stack = <<>>
    \/ scPc = "save"

\* C28: every directory the walker comes to read is the root it was called with or a
\* directory entry that is no symbolic link and has none of the skipped names; and
\* scanPath ends on the tree with the link cycle /a/l -> /a: every call of scan
\* lowers the pending work, a natural number, and while the scan is not done the
\* guard of a step holds
C28_NoLinkNoSkippedNameAndTerminates ==
    /\ [][\A dirPath \in readLog' \ readLog :
            dirPath \in RootCalls \/ DescendedInto(fsTree, dirPath)]_vars
    /\ [][ScanDir => PendingWork(stack') < PendingWork(stack)]_vars
    /\ [](PendingWork(stack) >= 0)
    /\ [](scPc # "done" => StepPossible)

\* the scan of /a is over: /a, with the link l and node_modules among its entries,
\* and /a/s were read, the link and node_modules were not
C28_Witness ==
    /\ scPc = "done"
    /\ pA \in RootCalls
    /\ {pA, pAS} \subseteq readLog
    /\ EntryTypeOf(fsTree, pAL) = "symlink"
    /\ Physical(pAL) = pA
    /\ pAL \notin readLog
    /\ pANm \notin readLog


(***************************************************************************)
(* C29: nothing is read below a repository root                            *)
(***************************************************************************)
\* the directories strictly above dirPath, from the root of the call down
ProperlyAbove(root, dirPath) == OnTheWay(Physical(root), Physical(dirPath)) \ {Physical(dirPath)}

StrictlyBelow(dirPath, other) ==
    /\ Physical(dirPath) # Physical(other)
    /\ IsUnder(Physical(other), Physical(dirPath))

\* the scanPath call in progress
WalkRoot == configuredPaths[rootIdx]

\* C29: within one scanPath call, every call scan(dirPath, depth) that is made, and
\* so every directory that is read, lies under the root with no .git entry in any
\* directory above it down from the root, and no record of the call lies strictly
\* below another record of the call
C29_NothingReadBelowGitEntry ==
    [](scPc = "walk" =>
        /\ \A k \in 1..Len(stack) :
              /\ IsUnder(Physical(WalkRoot), Physical(stack[k].dirPath))
              /\ \A q \in ProperlyAbove(WalkRoot, stack[k].dirPath) :
                    GitType(fsTree, q) = "none"
        /\ \A i, j \in 1..Len(repositories) :
              ~StrictlyBelow(repositories[i].path, repositories[j].path))

\* scanPath(/a) has returned with the record of /a/b, whose directory r holds a
\* .git directory too and was not read
C29_Witness ==
    /\ ScanPathReturned
    /\ WalkRoot = pA
    /\ pAB \in RecordPaths(repositories)
    /\ GitType(fsTree, pABR) = "dir"
    /\ pAB \in readLog
    /\ pABR \notin readLog

=============================================================================
